---- MODULE Spec2Model ----
(***************************************************************************)
(* MySQLConnection (mysql/connector/connection.py) as a state machine.     *)
(*                                                                         *)
(* The connection object's fields are the variables.  Every public method  *)
(* is one action; its body is an operator over a "machine" record m that   *)
(* carries the fields, the packets in flight and the raised exception      *)
(* (m.err), threaded through the calls the method makes, in source order.  *)
(* The server and the framer are the environment: the server's answers     *)
(* are inputs (m.ds, one decision per command sent), the framer is a FIFO  *)
(* of packets (wire).                                                      *)
(*                                                                         *)
(* Spec runs every method.  SpecCommands, SpecTransactions and SpecResults *)
(* run the connection life cycle, queries and row reading together with    *)
(* one family of methods each (the cmd_* methods; start_transaction,       *)
(* commit and rollback; the cmd_query_iter generator).  SpecLifecycle adds *)
(* reconnect() and ping(), whose loop runs one iteration per step (it need *)
(* not end); SpecConnect runs connect() over wider inputs (SSL settings,   *)
(* server versions, replies to the auth packet) and SpecEstablish over the *)
(* settings its steps depend on.  SpecStatements runs the prepared         *)
(* statement methods, SpecSession the setters of the stored session        *)
(* values (variable session), SpecWarnings and SpecCursors the warning     *)
(* flags and the cursor factory (variable settings), SpecTruncated the     *)
(* queries and executions answered with a packet cut short.                *)
(***************************************************************************)
EXTENDS Integers, Sequences, FiniteSets, TLC

VARIABLES
    socket,            \* self._socket: "None", "Open" or "Closed"
    unread_result,     \* self._unread_result
    have_next_result,  \* self._have_next_result
    in_transaction,    \* self._in_transaction
    wire,              \* packets the server has sent and the client has not read
    srv,               \* the server's session: [trans, autocommit, mode]
    iter,              \* the cmd_query_iter generator: position and bookkeeping
    last,              \* what the last method call did (op, inputs, error, packets)
    server_version,    \* self._server_version: <<major, minor, patch>>, or <<>>
                       \* for None; self._handshake is stored along with it
    okst,              \* status flags of the last OK/EOF packet received (-1: none)
    stale,             \* calls that sent a command over unread packets, since the
                       \* stream was last empty
    rc,                \* the loop of reconnect(): position, counter, arguments
    session,           \* the session values the connection stores: _charset_id,
                       \* _autocommit, _sql_mode, _time_zone, _database
    settings           \* self._get_warnings, _raise_on_warnings, _buffered, _raw

vars == <<socket, unread_result, have_next_result, in_transaction,
          wire, srv, iter, last, server_version, okst, stale, rc, session,
          settings>>

----------------------------------------------------------------------------
(* Bounds of the model. *)

MaxCols == 1       \* columns of a result set
MaxRows == 1       \* rows of a result set
MaxChain == 2      \* results in the answer to a multi-statement query
MaxStale == 1      \* calls in a row that send a command over unread packets
MaxCounter == 3    \* iterations of the loop of reconnect() that are followed
MaxParams == 2     \* parameters of a prepared statement

(* Program constants. *)

STATUS_IN_TRANS == 1        \* ServerFlag.STATUS_IN_TRANS
STATUS_AUTOCOMMIT == 2      \* ServerFlag.STATUS_AUTOCOMMIT
MORE_RESULTS_EXISTS == 8    \* ServerFlag.MORE_RESULTS_EXISTS
chunk_size == 8192          \* cmd_stmt_send_long_data
NET_BUFFER_LENGTH == 8192   \* constants.NET_BUFFER_LENGTH

----------------------------------------------------------------------------
(* constants.flag_is_set(flag, flags): (flags & flag) > 0, for a one-bit flag. *)
flag_is_set(flag, flags) == (flags \div flag) % 2 = 1

(* Packets.  tag is byte[4], the only thing the connection's dispatch reads; *)
(* kind is what the server meant the packet to be; st the status flags of an *)
(* OK/EOF; a, b the two counts of a prepare-OK; a, b, c the three numbers of  *)
(* the version string of a greeting; a the number a column count of more     *)
(* than one byte (tag 252 and above) encodes.                                *)
Pkt(kind, tag, st) ==
    [kind |-> kind, tag |-> tag, st |-> st, a |-> 0, b |-> 0, c |-> 0]
OKPkt(st) == Pkt("OK", 0, st)
EOFPkt(st) == Pkt("EOF", 254, st)
ERRPkt == Pkt("ERR", 255, -1)
ColCountPkt(n) == Pkt("COLCOUNT", n, -1)
WideCountPkt(n) == [Pkt("COLCOUNT", 252, -1) EXCEPT !.a = n]
ColDefPkt == Pkt("COLDEF", 3, -1)
RowPkt == Pkt("ROW", 1, -1)
StatsPkt == Pkt("STATS", 85, -1)
PrepareOKPkt(np, nc) ==
    [kind |-> "PREPOK", tag |-> 0, st |-> 0, a |-> np, b |-> nc, c |-> 0]
NoPkt == Pkt("none", -1, -1)
(* A response cut short: its first n bytes only, n <= 4, so without byte[4]. *)
ShortPkt(n) == [Pkt("SHORT", -1, -1) EXCEPT !.a = n]
(* len(packet): a whole packet is its 4-byte header and at least the tag.   *)
packet_len(packet) == IF packet.kind = "SHORT" THEN packet.a ELSE 5

(* n copies of p. *)
Rep(n, p) == [i \in 1..n |-> p]

----------------------------------------------------------------------------
(* The server (environment).  A decision is the chain of results the server *)
(* answers one command with; a result shape is [cols, rows]: cols = -1 an   *)
(* ERR packet, cols = 0 an OK packet, cols >= 1 a result set of that many    *)
(* columns and `rows` rows; cols = -4 a column count of 0, written in two    *)
(* bytes after the tag 252.                                                  *)

Shape(c, r) == [cols |-> c, rows |-> r]
OKShape == Shape(0, 0)
ErrShape == Shape(-1, 0)
MoreDataShape == Shape(-3, 0)
OldPwdShape == Shape(-2, 0)
ZeroCountShape == Shape(-4, 0)
ShortShape(n) == Shape(-5 - n, 0)
RSShapes == {Shape(c, r) : c \in 1..MaxCols, r \in 0..MaxRows}

SimpleDecisions == {<<OKShape>>, <<ErrShape>>}
SelectDecisions == {<<s>> : s \in RSShapes} \cup {<<ErrShape>>, <<ZeroCountShape>>}
ChainsOf(n) == {ch \in [1..n -> RSShapes \cup {OKShape, ErrShape}] :
                   \A i \in 1..(n-1) : ch[i] # ErrShape}
MultiDecisions == UNION {ChainsOf(n) : n \in 2..MaxChain}

(* The status flags the server reports for session s. *)
ServerStatus(s, more) ==
    (IF s.trans THEN STATUS_IN_TRANS ELSE 0)
    + (IF s.autocommit THEN STATUS_AUTOCOMMIT ELSE 0)
    + (IF more THEN MORE_RESULTS_EXISTS ELSE 0)

ResultPkts(shape, st) ==
    IF shape = ZeroCountShape THEN <<WideCountPkt(0)>>
    ELSE IF shape.cols <= -5 THEN <<ShortPkt(-5 - shape.cols)>>
    ELSE IF shape.cols < 0 THEN <<ERRPkt>>
    ELSE IF shape.cols = 0 THEN <<OKPkt(st)>>
    ELSE <<ColCountPkt(shape.cols)>> \o Rep(shape.cols, ColDefPkt) \o <<EOFPkt(st)>>
         \o Rep(shape.rows, RowPkt) \o <<EOFPkt(st)>>

RECURSIVE ChainPkts(_, _)
ChainPkts(chain, s) ==
    IF chain = <<>> THEN <<>>
    ELSE ResultPkts(Head(chain), ServerStatus(s, Len(chain) > 1))
         \o ChainPkts(Tail(chain), s)

(* The statements the connection issues itself, and the kinds a caller sends. *)
UserStmts == {"SELECT", "INSERT", "SELECT; SELECT", "LOAD DATA LOCAL INFILE"}

DecisionsFor(q) ==
    IF q = "SELECT" THEN SelectDecisions
    ELSE IF q = "SELECT; SELECT" THEN MultiDecisions
    ELSE SimpleDecisions

(* The session after the server executed statement q successfully. *)
SessionAfter(s, q) ==
    CASE q = "START TRANSACTION" -> [s EXCEPT !.trans = TRUE]
      [] q \in {"COMMIT", "ROLLBACK"} -> [s EXCEPT !.trans = FALSE]
      [] q = "SET @@session.autocommit = ON" ->
             [s EXCEPT !.autocommit = TRUE, !.trans = FALSE]
      [] q = "SET @@session.autocommit = OFF" -> [s EXCEPT !.autocommit = FALSE]
      [] q = "START TRANSACTION WITH CONSISTENT SNAPSHOT" -> [s EXCEPT !.trans = TRUE]
      [] q = "INSERT" -> [s EXCEPT !.trans = s.trans \/ ~s.autocommit]
      [] OTHER -> s

(* What the server does with one packet p = [cmd, arg, len] under decision d: *)
(* its new session and the packets it sends back.                           *)
ServerReact(s, p, d) ==
    LET failed == Head(d).cols < 0
        okOrErr == IF failed THEN <<ERRPkt>> ELSE <<OKPkt(ServerStatus(s, FALSE))>>
        eofOrErr == IF failed THEN <<ERRPkt>> ELSE <<EOFPkt(ServerStatus(s, FALSE))>>
    IN  CASE s.mode = "gone" -> [s |-> s, out |-> <<>>]
          [] p.cmd = "QUIT" -> [s |-> [s EXCEPT !.mode = "gone"], out |-> <<>>]
          [] s.mode = "auth" /\ p.cmd = "AUTH_SSL" -> [s |-> s, out |-> <<>>]
          [] s.mode = "auth" /\ p.cmd = "AUTH" ->
               IF Head(d) = OldPwdShape
               THEN [s |-> s, out |-> <<Pkt("AUTHSWITCH", 254, 0)>>]
               ELSE IF Head(d) = MoreDataShape
               THEN [s |-> s, out |-> <<Pkt("AUTHMORE", 1, 0)>>]
               ELSE IF failed THEN [s |-> [s EXCEPT !.mode = "gone"], out |-> <<ERRPkt>>]
               ELSE [s |-> [s EXCEPT !.mode = "cmd"],
                     out |-> <<OKPkt(ServerStatus(s, FALSE))>>]
          [] s.mode = "auth" -> [s |-> [s EXCEPT !.mode = "gone"], out |-> <<ERRPkt>>]
          [] p.cmd = "QUERY" ->
               IF d = <<ErrShape>> THEN [s |-> s, out |-> <<ERRPkt>>]
               ELSE IF p.arg = "LOAD DATA LOCAL INFILE"
                    THEN [s |-> [s EXCEPT !.mode = "infile"],
                          out |-> <<Pkt("INFILE", 251, -1)>>]
               ELSE LET t == SessionAfter(s, p.arg)
                    IN  [s |-> t, out |-> ChainPkts(d, t)]
          [] p.cmd = "DATA" ->
               IF s.mode = "infile" /\ p.len = 0
               THEN LET t == [s EXCEPT !.mode = "cmd"]
                    IN  [s |-> t, out |-> IF failed THEN <<ERRPkt>>
                                          ELSE <<OKPkt(ServerStatus(t, FALSE))>>]
               ELSE [s |-> s, out |-> <<>>]
          [] p.cmd \in {"INIT_DB", "REFRESH", "PROCESS_KILL", "PING", "CHANGE_USER",
                        "STMT_RESET"} -> [s |-> s, out |-> okOrErr]
          [] p.cmd \in {"SHUTDOWN", "DEBUG"} -> [s |-> s, out |-> eofOrErr]
          [] p.cmd = "STATISTICS" -> [s |-> s, out |-> <<StatsPkt>>]
          [] p.cmd = "STMT_PREPARE" ->
               [s |-> s,
                out |-> IF failed THEN <<ERRPkt>>
                        ELSE LET np == Head(d).rows
                                 nc == Head(d).cols
                                 st == ServerStatus(s, FALSE)
                             IN  <<PrepareOKPkt(np, nc)>>
                                 \o (IF np > 0 THEN Rep(np, ColDefPkt) \o <<EOFPkt(st)>>
                                     ELSE <<>>)
                                 \o (IF nc > 0 THEN Rep(nc, ColDefPkt) \o <<EOFPkt(st)>>
                                     ELSE <<>>)]
          [] p.cmd = "STMT_EXECUTE" ->
               [s |-> s, out |-> ResultPkts(Head(d), ServerStatus(s, FALSE))]
          [] OTHER -> [s |-> s, out |-> <<>>]   \* STMT_CLOSE, long data, SSL request

----------------------------------------------------------------------------
(* The machine record: the connection's fields, the stream, the server, and *)
(* what the running method has done so far.                                 *)
(*   ds    the server's decisions for the commands still to be sent         *)
(*   file  the local file a LOAD DATA LOCAL INFILE names: -1 unreadable,    *)
(*         else its size in bytes                                           *)
(*   sent  the packets handed to the framer by this call                    *)
(*   nrecv the number of packets read from the framer by this call          *)
(*   pkt   the packet last read; ret the value the call returns             *)
(*   got   for each packet read by this call: <<the number of packets the   *)
(*         call had sent by then, the packet's tag, its numbers a and b>>   *)
(*   tls   the number of packets sent by this call when it upgraded the     *)
(*         framer to TLS (0: it did not)                                    *)
(*   zip   the number of packets sent by this call when it swapped the     *)
(*         framer's send and recv for the compressed ones (0: it did not)   *)
(*   hdr   the result dispatcher accepted a result-set header in this call  *)
(*   session  the stored session values (the variable of that name)         *)
(*   settings the warning flags and cursor defaults (the variable)          *)
(*   long_data_used  the parameter indexes cmd_stmt_execute recorded as     *)
(*         sent as long data                                                *)

NoRet == [kind |-> "none", st |-> -1, n |-> 0]
Ret(kind, st, n) == [kind |-> kind, st |-> st, n |-> n]

Raise(m, e, msg) == [m EXCEPT !.err = e, !.msg = msg, !.ret = NoRet]
Return(m, r) == [m EXCEPT !.ret = r]

(* errors.Error and its subclasses, as `except errors.Error` sees them. *)
ErrorsError == {"InternalError", "InterfaceError", "OperationalError",
                "ProgrammingError", "NotSupportedError", "DatabaseError"}

SentPkt(cmd, arg, len) == [cmd |-> cmd, arg |-> arg, len |-> len]

(* A decision is used up by each packet the server answers. *)
Answered(s, p) ==
    CASE s.mode = "gone" -> FALSE
      [] p.cmd \in {"QUIT", "STMT_CLOSE", "STMT_SEND_LONG_DATA", "AUTH_SSL",
                    "STATISTICS"} -> FALSE
      [] p.cmd = "DATA" -> s.mode = "infile" /\ p.len = 0
      [] OTHER -> TRUE

(* MySQLSocket.send: on an absent framer the attribute lookup fails; on a   *)
(* closed one the framer raises OperationalError; else the packet reaches   *)
(* the server, whose answer is appended to the stream.                      *)
socket_send(m, p) ==
    IF m.socket = "None" THEN Raise(m, "AttributeError", "NoneType")
    ELSE IF m.socket # "Open" THEN Raise(m, "OperationalError", "socket")
    ELSE LET d == IF m.ds = <<>> THEN <<OKShape>> ELSE Head(m.ds)
             r == ServerReact(m.srv, p, d)
         IN  [m EXCEPT !.sent = Append(@, p),
                       !.over = @ \/ m.wire # <<>>,
                       !.srv = r.s,
                       !.wire = @ \o r.out,
                       !.ds = IF Answered(m.srv, p) /\ m.ds # <<>> THEN Tail(@) ELSE @]

(* MySQLSocket.recv: one whole packet; nothing to read ends in the framer's *)
(* lost-connection InterfaceError (the connection timeout).                 *)
socket_recv(m) ==
    IF m.socket = "None" THEN Raise(m, "AttributeError", "NoneType")
    ELSE IF m.socket # "Open" THEN Raise(m, "OperationalError", "socket")
    ELSE IF m.wire = <<>>
         THEN Raise([m EXCEPT !.pkt = NoPkt], "InterfaceError", "Lost connection")
    ELSE LET p == Head(m.wire)
         IN  [m EXCEPT !.wire = Tail(@), !.pkt = p, !.nrecv = @ + 1,
                       !.got = Append(@, <<Len(m.sent), p.tag, p.a, p.b>>),
                       !.okst = IF p.kind \in {"OK", "EOF"} THEN p.st ELSE @]

(* n calls of socket.recv(), each parsed by parse_column. *)
RECURSIVE RecvColumns(_, _)
RecvColumns(m, n) ==
    IF n = 0 \/ m.err # "None" THEN m ELSE RecvColumns(socket_recv(m), n - 1)

(* _send_cmd without its unread-result check. *)
_send_cmd_unchecked(m, command, argument, expect_response) ==
    LET s == socket_send(m, SentPkt(command, argument, 0))
    IN  IF s.err = "AttributeError"
        THEN Raise(s, "OperationalError", "MySQL Connection not available.")
        ELSE IF s.err # "None" THEN s
        ELSE IF ~expect_response THEN [s EXCEPT !.pkt = NoPkt]
        ELSE socket_recv(s)

_send_cmd(m, command, argument, expect_response) ==
    IF m.unread_result THEN Raise(m, "InternalError", "Unread result found.")
    ELSE LET s == socket_send(m, SentPkt(command, argument, 0))
         IN  IF s.err = "AttributeError"
             THEN Raise(s, "OperationalError", "MySQL Connection not available.")
             ELSE IF s.err # "None" THEN s
             ELSE IF ~expect_response THEN [s EXCEPT !.pkt = NoPkt]
             ELSE socket_recv(s)

(* _handle_server_status with the two flags taken from each other's bit. *)
_handle_server_status_swapped(m, flags) ==
    [m EXCEPT !.have_next_result = flag_is_set(STATUS_IN_TRANS, flags),
              !.in_transaction = flag_is_set(MORE_RESULTS_EXISTS, flags)]

_handle_server_status(m, flags) ==
    [m EXCEPT !.have_next_result = flag_is_set(MORE_RESULTS_EXISTS, flags),
              !.in_transaction = flag_is_set(STATUS_IN_TRANS, flags)]

(* _handle_ok forgetting the transaction when the server reports an error. *)
_handle_ok_forgetting(m, packet) ==
    IF packet.tag = 0
    THEN Return(_handle_server_status(m, packet.st), Ret("OK", packet.st, 0))
    ELSE IF packet.tag = 255
    THEN Raise([m EXCEPT !.in_transaction = FALSE], "DatabaseError", "server error")
    ELSE Raise(m, "InterfaceError", "Expected OK packet")

_handle_ok(m, packet) ==
    IF packet.tag = 0
    THEN Return(_handle_server_status(m, packet.st), Ret("OK", packet.st, 0))
    ELSE IF packet.tag = 255 THEN Raise(m, "DatabaseError", "server error")
    ELSE Raise(m, "InterfaceError", "Expected OK packet")

_handle_eof(m, packet) ==
    IF packet.tag = 254
    THEN Return(_handle_server_status(m, packet.st), Ret("EOF", packet.st, 0))
    ELSE IF packet.tag = 255 THEN Raise(m, "DatabaseError", "server error")
    ELSE Raise(m, "InterfaceError", "Expected EOF packet")

(* Run F on m unless a call before it raised. *)
Then(m, F(_)) == IF m.err # "None" THEN m ELSE F(m)

(* The buffers the loop `buf = f.read(size); while buf: ...; buf =          *)
(* f.read(size)` sees over a stream of `left` bytes: their lengths.         *)
RECURSIVE ReadChunks(_, _)
ReadChunks(left, size) ==
    IF left = 0 THEN <<>>
    ELSE LET n == IF left < size THEN left ELSE size
         IN  <<n>> \o ReadChunks(left - n, size)

(* self._socket.send(buf) for each buffer of the loop in _send_data. *)
RECURSIVE SendBuffers(_, _)
SendBuffers(m, bufs) ==
    IF bufs = <<>> \/ m.err # "None" THEN m
    ELSE SendBuffers(socket_send(m, SentPkt("DATA", "", Head(bufs))), Tail(bufs))

(* An AttributeError raised below becomes OperationalError. *)
NotAvailable(m) ==
    IF m.err = "AttributeError"
    THEN Raise(m, "OperationalError", "MySQL Connection not available.")
    ELSE m

_send_data(m, data_file, send_empty_packet) ==
    IF m.unread_result THEN Raise(m, "InternalError", "Unread result found.")
    ELSE LET sentAll == NotAvailable(
                 SendBuffers(m, ReadChunks(data_file, NET_BUFFER_LENGTH - 16)))
             ended == IF send_empty_packet
                      THEN Then(sentAll, LAMBDA x :
                               NotAvailable(socket_send(x, SentPkt("DATA", "", 0))))
                      ELSE sentAll
         IN  Then(ended, LAMBDA x : socket_recv(x))

(* _handle_load_data_infile sending the file without the empty packet. *)
_handle_load_data_infile_unterminated(m, filename) ==
    IF m.file < 0
    THEN Then(NotAvailable(socket_send(m, SentPkt("DATA", "", 0))),
              LAMBDA x : Raise(x, "InterfaceError", "File could not be read"))
    ELSE Then(_send_data(m, m.file, FALSE), LAMBDA x : _handle_ok(x, x.pkt))

(* _handle_load_data_infile raising at once when the file cannot be opened. *)
_handle_load_data_infile_not_cancelling(m, filename) ==
    IF m.file < 0
    THEN Raise(m, "InterfaceError", "File could not be read")
    ELSE Then(_send_data(m, m.file, TRUE), LAMBDA x : _handle_ok(x, x.pkt))

_handle_load_data_infile(m, filename) ==
    IF m.file < 0
    THEN Then(NotAvailable(socket_send(m, SentPkt("DATA", "", 0))),
              LAMBDA x : Raise(x, "InterfaceError", "File could not be read"))
    ELSE Then(_send_data(m, m.file, TRUE), LAMBDA x : _handle_ok(x, x.pkt))

(* MySQLProtocol.parse_column_count: the length-encoded integer at the tag: *)
(* the tag itself below 251, NULL (None) for 251, else the number written   *)
(* in the bytes that follow.                                                *)
NoCount == -1
parse_column_count(packet) ==
    IF packet.tag < 251 THEN packet.tag
    ELSE IF packet.tag = 251 THEN NoCount
    ELSE packet.a

(* _handle_result setting unread_result before the EOF after the columns is *)
(* read.                                                                    *)
_handle_result_marking_first(m, packet) ==
    CASE packet_len(packet) < 4 -> Raise(m, "InterfaceError", "Empty response")
      [] packet_len(packet) = 4 -> Raise(m, "IndexError", "index out of range")
      [] packet.tag = 0 -> _handle_ok(m, packet)
      [] packet.tag = 251 -> _handle_load_data_infile(m, packet)
      [] packet.tag = 254 -> _handle_eof(m, packet)
      [] packet.tag = 255 -> Raise(m, "DatabaseError", "server error")
      [] OTHER ->
           LET column_count == parse_column_count(packet)
               cols == Then(RecvColumns(m, column_count),
                            LAMBDA x : [x EXCEPT !.unread_result = TRUE])
               eof == Then(Then(cols, LAMBDA x : socket_recv(x)),
                           LAMBDA x : _handle_eof(x, x.pkt))
           IN  IF column_count = 0 \/ column_count = NoCount
               THEN Raise(m, "InterfaceError", "Illegal result set.")
               ELSE Then(eof, LAMBDA x :
                        Return([x EXCEPT !.hdr = TRUE],
                               Ret("RS", x.ret.st, column_count)))

_handle_result(m, packet) ==
    CASE packet_len(packet) < 4 -> Raise(m, "InterfaceError", "Empty response")
      [] packet_len(packet) = 4 -> Raise(m, "IndexError", "index out of range")
      [] packet.tag = 0 -> _handle_ok(m, packet)
      [] packet.tag = 251 -> _handle_load_data_infile(m, packet)
      [] packet.tag = 254 -> _handle_eof(m, packet)
      [] packet.tag = 255 -> Raise(m, "DatabaseError", "server error")
      [] OTHER ->
           LET column_count == parse_column_count(packet)
               cols == RecvColumns(m, column_count)
               eof == Then(Then(cols, LAMBDA x : socket_recv(x)),
                           LAMBDA x : _handle_eof(x, x.pkt))
           IN  IF column_count = 0 \/ column_count = NoCount
               THEN Raise(m, "InterfaceError", "Illegal result set.")
               ELSE Then(eof, LAMBDA x :
                        Return([x EXCEPT !.unread_result = TRUE, !.hdr = TRUE],
                               Ret("RS", x.ret.st, column_count)))

(* MySQLProtocol.read_text_result / read_binary_result: packets are read    *)
(* until `count` rows were read (count = -1: no limit) or a terminator      *)
(* arrived; returns (rows, eof) with eof = None when the count stopped it.  *)
RECURSIVE read_result(_, _, _)
read_result(m, count, got) ==
    IF count = got THEN Return(m, Ret("rows", -1, got))
    ELSE LET r == socket_recv(m)
         IN  IF r.err # "None" THEN r
             ELSE IF r.pkt.tag = 254 THEN Return(r, Ret("rows", r.pkt.st, got))
             ELSE IF r.pkt.tag = 255 THEN Raise(r, "DatabaseError", "server error")
             ELSE read_result(r, count, got + 1)

(* get_rows clearing unread_result whatever the terminator. *)
get_rows_clearing(m, count) ==
    IF ~m.unread_result THEN Raise(m, "InternalError", "No result set available.")
    ELSE Then(read_result(m, count, 0), LAMBDA x :
             IF x.ret.st # -1
             THEN [_handle_server_status(x, x.ret.st) EXCEPT !.unread_result = FALSE]
             ELSE [x EXCEPT !.unread_result = FALSE])

(* get_rows reading whatever unread_result. *)
get_rows_unguarded(m, count) ==
    Then(read_result(m, count, 0), LAMBDA x :
        IF x.ret.st # -1
        THEN [_handle_server_status(x, x.ret.st) EXCEPT !.unread_result = FALSE]
        ELSE x)

get_rows(m, count) ==
    IF ~m.unread_result THEN Raise(m, "InternalError", "No result set available.")
    ELSE Then(read_result(m, count, 0), LAMBDA x :
             IF x.ret.st # -1
             THEN [_handle_server_status(x, x.ret.st) EXCEPT !.unread_result = FALSE]
             ELSE x)

get_row(m) == get_rows(m, 1)

cmd_init_db(m, database) ==
    Then(_send_cmd(m, "INIT_DB", database, TRUE), LAMBDA x : _handle_ok(x, x.pkt))

(* cmd_query returning the result whatever have_next_result. *)
cmd_query_unchecked(m, query) ==
    Then(_send_cmd(m, "QUERY", query, TRUE), LAMBDA x : _handle_result(x, x.pkt))

cmd_query(m, query) ==
    LET result == Then(_send_cmd(m, "QUERY", query, TRUE),
                       LAMBDA x : _handle_result(x, x.pkt))
    IN  Then(result, LAMBDA x :
            IF x.have_next_result
            THEN Raise(x, "InterfaceError", "Use cmd_query_iter")
            ELSE x)

cmd_refresh(m, options) ==
    Then(_send_cmd(m, "REFRESH", options, TRUE), LAMBDA x : _handle_ok(x, x.pkt))

cmd_quit(m) ==
    IF m.unread_result THEN Raise(m, "InternalError", "Unread result found.")
    ELSE Then(socket_send(m, SentPkt("QUIT", "", 0)),
              LAMBDA x : Return(x, Ret("packet", -1, 0)))

(* shutdown_type: "None" (not given), "valid" or "invalid" (unknown to      *)
(* ShutdownType.get_info).                                                  *)
cmd_shutdown(m, shutdown_type) ==
    IF shutdown_type = "invalid" THEN Raise(m, "InterfaceError", "Invalid shutdown type")
    ELSE Then(_send_cmd(m, "SHUTDOWN", shutdown_type, TRUE),
              LAMBDA x : _handle_eof(x, x.pkt))

cmd_statistics(m) ==
    IF m.unread_result THEN Raise(m, "InternalError", "Unread result found.")
    ELSE Then(Then(socket_send(m, SentPkt("STATISTICS", "", 0)),
                   LAMBDA x : socket_recv(x)),
              LAMBDA x : Return(x, Ret("stats", -1, 0)))

cmd_process_kill(m, mysql_pid) ==
    Then(_send_cmd(m, "PROCESS_KILL", mysql_pid, TRUE), LAMBDA x : _handle_ok(x, x.pkt))

cmd_debug(m) ==
    Then(_send_cmd(m, "DEBUG", "", TRUE), LAMBDA x : _handle_eof(x, x.pkt))

cmd_ping(m) ==
    Then(_send_cmd(m, "PING", "", TRUE), LAMBDA x : _handle_ok(x, x.pkt))

cmd_change_user(m) ==
    IF m.unread_result THEN Raise(m, "InternalError", "Unread result found.")
    ELSE Then(Then(socket_send(m, SentPkt("CHANGE_USER", "", 0)),
                   LAMBDA x : socket_recv(x)),
              LAMBDA x : _handle_ok(x, x.pkt))

_handle_binary_ok(m, packet) ==
    IF packet.tag = 0 THEN Return(m, Ret("prepare", packet.a, packet.b))
    ELSE IF packet.tag = 255 THEN Raise(m, "DatabaseError", "server error")
    ELSE Raise(m, "InterfaceError", "Expected Binary OK packet")

_handle_binary_result(m, packet) ==
    CASE packet_len(packet) < 4 -> Raise(m, "InterfaceError", "Empty response")
      [] packet_len(packet) = 4 -> Raise(m, "IndexError", "index out of range")
      [] packet.tag = 0 -> _handle_ok(m, packet)
      [] packet.tag = 254 -> _handle_eof(m, packet)
      [] packet.tag = 255 -> Raise(m, "DatabaseError", "server error")
      [] OTHER ->
           LET column_count == parse_column_count(packet)
               cols == RecvColumns(m, column_count)
               eof == Then(Then(cols, LAMBDA x : socket_recv(x)),
                           LAMBDA x : _handle_eof(x, x.pkt))
           IN  IF column_count = 0 \/ column_count = NoCount
               THEN Raise(m, "InterfaceError", "Illegal result set.")
               ELSE Then(eof, LAMBDA x :
                        Return(x, Ret("BRS", x.ret.st, column_count)))

(* RecvDefinitions without the read of the EOF. *)
RecvDefinitions_without_eof(m, n) ==
    IF n > 0 THEN RecvColumns(m, n) ELSE m

(* n column definitions followed by one EOF, when n > 0. *)
RecvDefinitions(m, n) ==
    IF n > 0
    THEN Then(Then(RecvColumns(m, n), LAMBDA x : socket_recv(x)),
              LAMBDA x : _handle_eof(x, x.pkt))
    ELSE m

cmd_stmt_prepare(m, statement) ==
    LET result == Then(_send_cmd(m, "STMT_PREPARE", statement, TRUE),
                       LAMBDA x : _handle_binary_ok(x, x.pkt))
        num_params == result.ret.st
        num_columns == result.ret.n
        params == Then(result, LAMBDA x : RecvDefinitions(x, num_params))
        columns == Then(params, LAMBDA x : RecvDefinitions(x, num_columns))
        \* one descriptor was appended for each packet read before the EOF
        parameters_len == IF num_params > 0 THEN params.nrecv - result.nrecv - 1
                          ELSE 0
        columns_len == IF num_columns > 0 THEN columns.nrecv - params.nrecv - 1
                       ELSE 0
    IN  Then(columns, LAMBDA x : Return(x, Ret("prepare", parameters_len, columns_len)))

(* self._send_cmd(STMT_SEND_LONG_DATA, ...) for each buffer read from data. *)
RECURSIVE SendLongData(_, _)
SendLongData(m, bufs) ==
    IF bufs = <<>> \/ m.err # "None" THEN m
    ELSE SendLongData(
             [_send_cmd(m, "STMT_SEND_LONG_DATA", "", FALSE)
                 EXCEPT !.sent = IF Len(@) > Len(m.sent)
                                 THEN [@ EXCEPT ![Len(@)].len = Head(bufs)] ELSE @],
             Tail(bufs))

(* self._protocol is None until the first connect(), which assigns it just  *)
(* before it assigns self._socket: both are absent together.  An attribute  *)
(* of the absent protocol object is looked up.                              *)
protocol_absent(m) == m.socket = "None"

(* data: the length of the stream, in bytes.  The codec's function is       *)
(* fetched before the try block.                                            *)
cmd_stmt_send_long_data(m, statement_id, param_id, data) ==
    IF protocol_absent(m) THEN Raise(m, "AttributeError", "NoneType")
    ELSE Then(NotAvailable(SendLongData(m, ReadChunks(data, chunk_size))),
              LAMBDA x : Return(x, Ret("int", -1, data)))

(* data: per value, the length of its stream (an IOBase), or -1 for a plain *)
(* value; parameters: the parameter descriptions, of which only the number  *)
(* matters.  The loop `for param_id, _ in enumerate(parameters)` from       *)
(* param_id on: a value that is a stream is sent as long data and its index *)
(* recorded in long_data_used; data[param_id] beyond the end of data raises *)
(* IndexError.                                                              *)
RECURSIVE SendStreams(_, _, _, _, _)
SendStreams(m, statement_id, data, parameters, param_id) ==
    IF param_id >= Len(parameters) \/ m.err # "None" THEN m
    ELSE IF param_id >= Len(data)
    THEN Raise(m, "IndexError", "tuple index out of range")
    ELSE SendStreams(
             IF data[param_id + 1] >= 0
             THEN Then(cmd_stmt_send_long_data(m, statement_id, param_id,
                                               data[param_id + 1]),
                       LAMBDA x : [x EXCEPT !.long_data_used = @ \cup {param_id}])
             ELSE m,
             statement_id, data, parameters, param_id + 1)

(* cmd_stmt_execute sending STMT_EXECUTE before the streams. *)
cmd_stmt_execute_streams_last(m, statement_id, data, parameters) ==
    IF protocol_absent(m) THEN Raise(m, "AttributeError", "NoneType")
    ELSE LET packet == _send_cmd(m, "STMT_EXECUTE", "", FALSE)
             streamed == Then(packet, LAMBDA x :
                             IF data # <<>>
                             THEN SendStreams(x, statement_id, data, parameters, 0)
                             ELSE x)
         IN  Then(Then(streamed, LAMBDA x : socket_recv(x)),
                  LAMBDA x : _handle_binary_result(x, x.pkt))

(* The streams are sent (`if data:`) and the packet is made by the codec   *)
(* before _send_cmd is reached.                                             *)
cmd_stmt_execute(m, statement_id, data, parameters) ==
    IF protocol_absent(m) THEN Raise(m, "AttributeError", "NoneType")
    ELSE LET streamed == IF data # <<>>
                         THEN SendStreams(m, statement_id, data, parameters, 0)
                         ELSE m
             packet == Then(streamed, LAMBDA x : _send_cmd(x, "STMT_EXECUTE", "", TRUE))
         IN  Then(packet, LAMBDA x : _handle_binary_result(x, x.pkt))

(* cmd_stmt_close waiting for a response. *)
cmd_stmt_close_expecting_response(m, statement_id) ==
    Then(_send_cmd(m, "STMT_CLOSE", "", TRUE), LAMBDA x : Return(x, NoRet))

cmd_stmt_close(m, statement_id) ==
    Then(_send_cmd(m, "STMT_CLOSE", "", FALSE), LAMBDA x : Return(x, NoRet))

cmd_stmt_reset(m, statement_id) ==
    Then(Then(_send_cmd(m, "STMT_RESET", "", TRUE), LAMBDA x : _handle_ok(x, x.pkt)),
         LAMBDA x : Return(x, NoRet))

----------------------------------------------------------------------------
(* Strings are sequences of one-character strings. *)

Whitespace == {" ", "\t", "\n", "\r"}

upper_char(c) ==
    CASE c = "a" -> "A"
      [] c = "b" -> "B"
      [] c = "c" -> "C"
      [] c = "d" -> "D"
      [] c = "e" -> "E"
      [] c = "f" -> "F"
      [] c = "g" -> "G"
      [] c = "h" -> "H"
      [] c = "i" -> "I"
      [] c = "j" -> "J"
      [] c = "k" -> "K"
      [] c = "l" -> "L"
      [] c = "m" -> "M"
      [] c = "n" -> "N"
      [] c = "o" -> "O"
      [] c = "p" -> "P"
      [] c = "q" -> "Q"
      [] c = "r" -> "R"
      [] c = "s" -> "S"
      [] c = "t" -> "T"
      [] c = "u" -> "U"
      [] c = "v" -> "V"
      [] c = "w" -> "W"
      [] c = "x" -> "X"
      [] c = "y" -> "Y"
      [] c = "z" -> "Z"
      [] OTHER -> c

(* str.upper() *)
upper(s) == [i \in 1..Len(s) |-> upper_char(s[i])]

(* str.replace(a, b), for one-character a and b *)
replace(s, a, b) == [i \in 1..Len(s) |-> IF s[i] = a THEN b ELSE s[i]]

(* str.strip(): leading and trailing whitespace removed *)
RECURSIVE lstrip(_)
lstrip(s) == IF s # <<>> /\ Head(s) \in Whitespace THEN lstrip(Tail(s)) ELSE s
RECURSIVE rstrip(_)
rstrip(s) ==
    IF s # <<>> /\ s[Len(s)] \in Whitespace THEN rstrip(SubSeq(s, 1, Len(s) - 1)) ELSE s
strip(s) == rstrip(lstrip(s))

levels == {<<"R", "E", "A", "D", " ", "U", "N", "C", "O", "M", "M", "I", "T", "T", "E", "D">>,
           <<"R", "E", "A", "D", " ", "C", "O", "M", "M", "I", "T", "T", "E", "D">>,
           <<"R", "E", "P", "E", "A", "T", "A", "B", "L", "E", " ", "R", "E", "A", "D">>,
           <<"S", "E", "R", "I", "A", "L", "I", "Z", "A", "B", "L", "E">>}

(* isolation_level=None, told apart from every string. *)
NoLevel == <<"None">>
IsoLower == <<"s", "e", "r", "i", "a", "l", "i", "z", "a", "b", "l", "e">>
IsoDashed == <<"R", "e", "a", "d", "-", "C", "o", "m", "m", "i", "t", "t", "e", "d">>
IsoSpaced == <<"r", "e", "p", "e", "a", "t", "a", "b", "l", "e", " ", "r", "e", "a", "d">>
IsoUpper == <<"R", "E", "A", "D", " ", "U", "N", "C", "O", "M", "M", "I", "T", "T", "E", "D">>
IsoPadded == <<" ", "S", "E", "R", "I", "A", "L", "I", "Z", "A", "B", "L", "E">>
IsoTrailing == <<"r", "e", "a", "d", " ", "c", "o", "m", "m", "i", "t", "t", "e", "d", "\n">>
IsoDoubleSpace == <<"R", "E", "A", "D", " ", " ", "C", "O", "M", "M", "I", "T", "T", "E", "D">>
IsoUnderscore == <<"R", "E", "A", "D", "_", "C", "O", "M", "M", "I", "T", "T", "E", "D">>
IsoBogus == <<"b", "o", "g", "u", "s">>
IsoLeadingDash == <<"-", "S", "E", "R", "I", "A", "L", "I", "Z", "A", "B", "L", "E">>
IsoInputs == {NoLevel, <<>>, IsoLower, IsoDashed, IsoSpaced, IsoUpper, IsoPadded, IsoTrailing,
              IsoDoubleSpace, IsoUnderscore, IsoBogus, IsoLeadingDash}

_execute_query(m, query) ==
    IF m.unread_result THEN Raise(m, "InternalError", "Unread result found.")
    ELSE Then(cmd_query(m, query), LAMBDA x : Return(x, NoRet))

(* A value of sql_mode: None, a string (the mode names it lists, separated  *)
(* by commas) or a list or tuple of mode names.                             *)
ModeValue(kind, names) == [kind |-> kind, names |-> names]
NoMode == ModeValue("None", <<>>)

(* ','.join(value) *)
join(value) == ModeValue("str", value.names)

set_database(m, value) ==
    Then(cmd_query(m, "USE"), LAMBDA x : Return(x, NoRet))

set_time_zone(m, value) ==
    Then(cmd_query(m, "SET @@session.time_zone"),
         LAMBDA x : Return([x EXCEPT !.session.time_zone = value], NoRet))

set_sql_mode(m, value) ==
    LET joined == IF value.kind = "list" THEN join(value) ELSE value
    IN  Then(cmd_query(m, "SET @@session.sql_mode"),
             LAMBDA x : Return([x EXCEPT !.session.sql_mode = joined], NoRet))

set_autocommit(m, value) ==
    _execute_query(m, IF value THEN "SET @@session.autocommit = ON"
                      ELSE "SET @@session.autocommit = OFF")

(* The catalog of character sets (CharacterSet): per id the name of the     *)
(* character set, the collation, and whether it is the set's default.       *)
CharacterSet ==
    {[id |-> 33, name |-> "utf8", collation |-> "utf8_general_ci", default |-> TRUE],
     [id |-> 83, name |-> "utf8", collation |-> "utf8_bin", default |-> FALSE],
     [id |-> 8, name |-> "latin1", collation |-> "latin1_swedish_ci", default |-> TRUE]}

NoInfo == [id |-> -1, name |-> "None", collation |-> "None", default |-> FALSE]

(* CharacterSet.get_info(id) *)
get_info(id) ==
    IF \E c \in CharacterSet : c.id = id
    THEN CHOOSE c \in CharacterSet : c.id = id
    ELSE NoInfo

(* CharacterSet.get_charset_info(charset, collation): the default collation *)
(* of the named set, the entry of the named collation, or the entry that    *)
(* has both names; NoInfo stands for the ProgrammingError it raises.        *)
get_charset_info(charset, collation) ==
    LET found == {c \in CharacterSet :
                     /\ charset # "None" => c.name = charset
                     /\ IF collation # "None" THEN c.collation = collation
                        ELSE c.default}
    IN  IF found = {} THEN NoInfo ELSE CHOOSE c \in found : TRUE

(* A charset argument: None, an id or a name. *)
CharsetArg(kind, id, name) == [kind |-> kind, id |-> id, name |-> name]

(* The charset property of a connection whose stored values are s. *)
charset_of(s) == get_info(s.charset_id).name

(* set_charset_collation: the id is stored when the names are looked up,    *)
(* before SET NAMES is sent; with neither argument the names are unbound.   *)
set_charset_collation(m, charset_arg, collation) ==
    LET info == IF charset_arg.kind = "int" THEN get_info(charset_arg.id)
                ELSE get_charset_info(charset_arg.name, collation)
        looked == IF charset_arg.kind = "None" /\ collation = "None" THEN m
                  ELSE IF info = NoInfo
                  THEN Raise(IF charset_arg.kind = "int"
                             THEN [m EXCEPT !.session.charset_id = charset_arg.id]
                             ELSE m,
                             "ProgrammingError", "Character set not supported")
                  ELSE [m EXCEPT !.session.charset_id = info.id]
        named == Then(looked, LAMBDA x :
                     IF charset_arg.kind = "None" /\ collation = "None"
                     THEN Raise(x, "UnboundLocalError", "charset_name")
                     ELSE x)
    IN  Then(Then(named, LAMBDA x : _execute_query(x, "SET NAMES")),
             LAMBDA x : Return(x, NoRet))

(* start_transaction comparing the level without replacing "-". *)
start_transaction_keeping_dash(m, consistent_snapshot, isolation_level) ==
    IF m.in_transaction
    THEN Raise(m, "ProgrammingError", "Transaction already in progress")
    ELSE LET level == upper(strip(isolation_level))
             isolated ==
                 IF isolation_level # NoLevel /\ isolation_level # <<>>
                 THEN IF level \notin levels
                      THEN Raise(m, "ValueError", "Unknown isolation level")
                      ELSE _execute_query(m, "SET TRANSACTION ISOLATION LEVEL")
                 ELSE m
             query == IF consistent_snapshot
                      THEN "START TRANSACTION WITH CONSISTENT SNAPSHOT"
                      ELSE "START TRANSACTION"
         IN  Then(isolated, LAMBDA x : _execute_query(x, query))

(* start_transaction without its check of in_transaction. *)
start_transaction_unguarded(m, consistent_snapshot, isolation_level) ==
    LET level == upper(replace(strip(isolation_level), "-", " "))
        isolated ==
            IF isolation_level # NoLevel /\ isolation_level # <<>>
            THEN IF level \notin levels
                 THEN Raise(m, "ValueError", "Unknown isolation level")
                 ELSE _execute_query(m, "SET TRANSACTION ISOLATION LEVEL")
            ELSE m
        query == IF consistent_snapshot
                 THEN "START TRANSACTION WITH CONSISTENT SNAPSHOT"
                 ELSE "START TRANSACTION"
    IN  Then(isolated, LAMBDA x : _execute_query(x, query))

start_transaction(m, consistent_snapshot, isolation_level) ==
    IF m.in_transaction
    THEN Raise(m, "ProgrammingError", "Transaction already in progress")
    ELSE LET level == upper(replace(strip(isolation_level), "-", " "))
             isolated ==
                 IF isolation_level # NoLevel /\ isolation_level # <<>>
                 THEN IF level \notin levels
                      THEN Raise(m, "ValueError", "Unknown isolation level")
                      ELSE _execute_query(m, "SET TRANSACTION ISOLATION LEVEL")
                 ELSE m
             query == IF consistent_snapshot
                      THEN "START TRANSACTION WITH CONSISTENT SNAPSHOT"
                      ELSE "START TRANSACTION"
         IN  Then(isolated, LAMBDA x : _execute_query(x, query))

commit(m) == _execute_query(m, "COMMIT")

rollback(m) ==
    LET drained == IF m.unread_result THEN get_rows(m, -1) ELSE m
    IN  Then(drained, LAMBDA x : _execute_query(x, "ROLLBACK"))

(* The unread_result property's setter; toggle is "True", "False" or a      *)
(* value that is no bool.                                                   *)
_set_unread_result(m, toggle) ==
    IF toggle \notin {"True", "False"} THEN Raise(m, "ValueError", "Expected a boolean type")
    ELSE [m EXCEPT !.unread_result = (toggle = "True")]

(* The get_warnings property's setter; toggle as for unread_result. *)
_set_getwarnings(m, toggle) ==
    IF toggle \notin {"True", "False"} THEN Raise(m, "ValueError", "Expected a boolean type")
    ELSE [m EXCEPT !.settings.get_warnings = (toggle = "True")]

_set_raise_on_warnings(m, toggle) ==
    IF toggle \notin {"True", "False"} THEN Raise(m, "ValueError", "Expected a boolean type")
    ELSE [m EXCEPT !.settings.raise_on_warnings = (toggle = "True"),
                   !.settings.get_warnings = (toggle = "True")]

(* config(buffered=..., raw=...): the values are stored as given. *)
config_cursor_defaults(m, buffered, raw) ==
    [m EXCEPT !.settings.buffered = buffered, !.settings.raw = raw]

----------------------------------------------------------------------------
(* Connection lifecycle. *)

(* MySQLSocket.close_connection: the stream and what was unread on it go. *)
close_connection(m) ==
    [m EXCEPT !.socket = "Closed", !.wire = <<>>, !.srv.mode = "gone"]

(* disconnect without its try/except: what cmd_quit raises reaches the      *)
(* caller.                                                                  *)
disconnect_propagating(m) ==
    IF m.socket = "None" THEN m
    ELSE Then(cmd_quit(m), LAMBDA x : Return(close_connection(x), NoRet))

(* disconnect clearing unread_result before it sends QUIT. *)
disconnect_resetting(m) ==
    IF m.socket = "None" THEN m
    ELSE LET done == Then(cmd_quit([m EXCEPT !.unread_result = FALSE]),
                          LAMBDA x : close_connection(x))
         IN  IF done.err \in ErrorsError \cup {"AttributeError"}
             THEN [done EXCEPT !.err = "None", !.msg = "", !.ret = NoRet]
             ELSE Return(done, NoRet)

disconnect(m) ==
    IF m.socket = "None" THEN m
    ELSE LET done == Then(cmd_quit(m), LAMBDA x : close_connection(x))
         IN  IF done.err \in ErrorsError \cup {"AttributeError"}
             THEN [done EXCEPT !.err = "None", !.msg = "", !.ret = NoRet]
             ELSE Return(done, NoRet)

(* The server's greeting: "ok" (version 5.6.10), "old" (4.0.27),            *)
(* "noversion" (a version string the pattern does not match), "garbled"     *)
(* (parse_handshake fails), "err" (an ERR packet); and, for the wider       *)
(* inputs, "first" (4.1.0) and "ancient" (3.23.58).                         *)
HandshakeInputs == {"ok", "old", "noversion", "garbled", "err"}
Greetings == HandshakeInputs \cup {"first", "ancient"}
Version(hs) ==
    CASE hs = "ok" -> <<5, 6, 10>>
      [] hs = "old" -> <<4, 0, 27>>
      [] hs = "first" -> <<4, 1, 0>>
      [] hs = "ancient" -> <<3, 23, 58>>
      [] hs = "garbled" -> <<-2, 0, 0>>
      [] OTHER -> <<-1, 0, 0>>
HandshakePkt(hs) ==
    IF hs = "err" THEN ERRPkt
    ELSE [Pkt("HANDSHAKE", 10, -1) EXCEPT !.a = Version(hs)[1], !.b = Version(hs)[2],
                                          !.c = Version(hs)[3]]

(* v < w for two tuples of numbers, as Python compares them. *)
RECURSIVE tuple_lt(_, _)
tuple_lt(v, w) ==
    IF w = <<>> THEN FALSE
    ELSE IF v = <<>> THEN TRUE
    ELSE IF Head(v) # Head(w) THEN Head(v) < Head(w)
    ELSE tuple_lt(Tail(v), Tail(w))

(* _do_handshake storing the version before it is tested. *)
_do_handshake_storing_first(m) ==
    Then(socket_recv(m), LAMBDA x :
        LET packet == x.pkt
            version == <<packet.a, packet.b, packet.c>>
        IN  IF packet.tag = 255 THEN Raise(x, "DatabaseError", "server error")
            ELSE IF packet.kind # "HANDSHAKE" \/ packet.a = -2
                 THEN Raise(x, "InterfaceError", "Failed parsing handshake")
            ELSE IF packet.a = -1
                 THEN Raise(x, "InterfaceError", "Failed parsing MySQL version")
            ELSE IF tuple_lt(version, <<4, 1>>)
                 THEN Raise([x EXCEPT !.server_version = version],
                            "InterfaceError", "MySQL Version is not supported.")
            ELSE [x EXCEPT !.server_version = version])

(* A session starts unauthenticated; after an ERR greeting the server is    *)
(* gone.                                                                    *)
NewSession(hs) == [trans |-> FALSE, autocommit |-> TRUE,
                   mode |-> IF hs = "err" THEN "gone" ELSE "auth"]

_do_handshake(m) ==
    Then(socket_recv(m), LAMBDA x :
        LET packet == x.pkt
            version == <<packet.a, packet.b, packet.c>>
        IN  IF packet.tag = 255 THEN Raise(x, "DatabaseError", "server error")
            ELSE IF packet.kind # "HANDSHAKE" \/ packet.a = -2
                 THEN Raise(x, "InterfaceError", "Failed parsing handshake")
            ELSE IF packet.a = -1
                 THEN Raise(x, "InterfaceError", "Failed parsing MySQL version")
            ELSE IF tuple_lt(version, <<4, 1>>)
                 THEN Raise(x, "InterfaceError", "MySQL Version is not supported.")
            ELSE [x EXCEPT !.server_version = version])

(* MySQLSocket.switch_to_ssl: the framer is upgraded to TLS; tls records    *)
(* how many packets this call had handed to the framer by then.             *)
switch_to_ssl(m, ssl_options) == [m EXCEPT !.tls = Len(m.sent)]

(* _do_auth asking for TLS whenever the SSL flag is set. *)
_do_auth_flag_only(m, cfg) ==
    LET ssl == IF cfg.ssl
               THEN Then(socket_send(m, SentPkt("AUTH_SSL", "", 0)),
                         LAMBDA x : [x EXCEPT !.tls = Len(x.sent)])
               ELSE m
        reply == Then(Then(ssl, LAMBDA x : socket_send(x, SentPkt("AUTH", "", 0))),
                      LAMBDA x : socket_recv(x))
        checked == Then(reply, LAMBDA x :
                       IF x.pkt.tag = 254
                       THEN Raise(x, "NotSupportedError", "old (insecure) passwords")
                       ELSE IF x.pkt.tag = 255
                       THEN Raise(x, "DatabaseError", "server error")
                       ELSE x)
    IN  Then(checked, LAMBDA x :
            IF ~cfg.with_db /\ cfg.database THEN cmd_init_db(x, "database") ELSE x)

(* cfg.ssl: ClientFlag.SSL is among the client flags; cfg.ssl_options: the *)
(* keys of self._ssl.                                                       *)
_do_auth(m, cfg) ==
    LET ssl == IF cfg.ssl /\ cfg.ssl_options # <<>>
               THEN Then(socket_send(m, SentPkt("AUTH_SSL", "", 0)),
                         LAMBDA x : switch_to_ssl(x, cfg.ssl_options))
               ELSE m
        reply == Then(Then(ssl, LAMBDA x : socket_send(x, SentPkt("AUTH", "", 0))),
                      LAMBDA x : socket_recv(x))
        checked == Then(reply, LAMBDA x :
                       IF x.pkt.tag = 254
                       THEN Raise(x, "NotSupportedError", "old (insecure) passwords")
                       ELSE IF x.pkt.tag = 255
                       THEN Raise(x, "DatabaseError", "server error")
                       ELSE x)
    IN  Then(checked, LAMBDA x :
            IF ~cfg.with_db /\ cfg.database THEN cmd_init_db(x, "database") ELSE x)

(* self._socket.recv = self._socket.recv_compressed, and the same for send: *)
(* zip records how many packets this call had handed to the framer by then. *)
recv_compressed(m) == [m EXCEPT !.zip = Len(m.sent)]

(* net: whether the transport can be opened ("up") or not ("down");         *)
(* cfg.compress: ClientFlag.COMPRESS is among the client flags.             *)
_open_connection(m, cfg, net, hs) ==
    IF net = "down"
    THEN Raise([m EXCEPT !.socket = "Closed", !.wire = <<>>, !.srv.mode = "gone"],
               "InterfaceError", "Can't connect to MySQL server")
    ELSE LET opened == [m EXCEPT !.socket = "Open", !.wire = <<HandshakePkt(hs)>>,
                                 !.srv = NewSession(hs)]
         IN  Then(Then(_do_handshake(opened), LAMBDA x : _do_auth(x, cfg)),
                  LAMBDA x : IF cfg.compress THEN recv_compressed(x) ELSE x)

_post_connection(m, cfg) ==
    LET charset == _execute_query(m, "SET NAMES")
        autocommit == Then(charset, LAMBDA x :
                          _execute_query(x, IF cfg.autocommit
                                            THEN "SET @@session.autocommit = ON"
                                            ELSE "SET @@session.autocommit = OFF"))
        time_zone == Then(autocommit, LAMBDA x :
                         IF cfg.time_zone THEN cmd_query(x, "SET @@session.time_zone")
                         ELSE x)
    IN  Then(time_zone, LAMBDA x :
            IF cfg.sql_mode THEN cmd_query(x, "SET @@session.sql_mode") ELSE x)

connect(m, cfg, net, hs) ==
    Then(Then(Then(disconnect(m), LAMBDA x : _open_connection(x, cfg, net, hs)),
              LAMBDA x : _post_connection(x, cfg)),
         LAMBDA x : Return(x, NoRet))

(* is_connected: cmd_ping, every exception turned into False. *)
is_connected_except(p) ==
    IF p.err # "None"
    THEN [p EXCEPT !.err = "None", !.msg = "", !.ret = Ret("bool", -1, 0)]
    ELSE Return(p, Ret("bool", -1, 1))

is_connected(m) == is_connected_except(cmd_ping(m))

(* What follows the try block of reconnect()'s loop, try being the machine *)
(* after that block: "break" when is_connected() was true, the              *)
(* InterfaceError of the except clause at the last attempt, else the loop   *)
(* runs out ("exhausted") or goes on ("continue").                          *)
reconnect_except(try, counter, attempts) ==
    IF try.err = "None" /\ try.ret = Ret("bool", -1, 1)
    THEN Return(try, Ret("break", -1, counter))
    ELSE IF try.err # "None" /\ counter = attempts
    THEN Raise(try, "InterfaceError", "Can not reconnect to MySQL")
    ELSE [try EXCEPT !.err = "None", !.msg = "",
                     !.ret = Ret(IF counter = attempts THEN "exhausted"
                                 ELSE "continue", -1, counter)]

(* One iteration of the loop of reconnect(attempts, delay), counter being   *)
(* the incremented counter: disconnect, connect with the configured values, *)
(* is_connected (the server deciding dp on the ping).  The sleep of delay   *)
(* seconds changes nothing here.                                            *)
reconnect(m, counter, attempts, cfg, net, hs, dp) ==
    reconnect_except(Then(Then(disconnect(m), LAMBDA x : connect(x, cfg, net, hs)),
                          LAMBDA x : is_connected([x EXCEPT !.ds = <<dp>>])),
                     counter, attempts)

(* ping(reconnect, attempts, delay) up to its call of reconnect(): the     *)
(* value "reconnect" says that the call goes on with that loop.             *)
ping_except(p, reconnect_) ==
    IF p.err = "None" THEN Return(p, NoRet)
    ELSE IF reconnect_
    THEN [p EXCEPT !.err = "None", !.msg = "", !.ret = Ret("reconnect", -1, 0)]
    ELSE Raise(p, "InterfaceError", "Connection to MySQL is not available.")

ping(m, reconnect_) == ping_except(cmd_ping(m), reconnect_)

(* The cursor classes: the four of the connector, the prepared one, and for *)
(* cursor_class a subclass of CursorBase ("MyCursor") or another class.     *)
types == <<"MySQLCursor", "MySQLCursorBuffered", "MySQLCursorRaw",
           "MySQLCursorBufferedRaw">>

(* cursor() choosing among the four classes before it looks at prepared. *)
cursor_prepared_last(m, buffered, raw, prepared, cursor_class) ==
    IF m.unread_result THEN Raise(m, "InternalError", "Unread result found.")
    ELSE LET c == is_connected(m)
             buffered_ == buffered = "True" \/ c.settings.buffered
             raw_ == raw = "True" \/ c.settings.raw
             cursor_type == (IF buffered_ THEN 1 ELSE 0) + (IF raw_ THEN 2 ELSE 0)
         IN  IF c.ret.n = 0
             THEN Raise(c, "OperationalError", "MySQL Connection not available.")
             ELSE IF cursor_class # "None"
             THEN IF cursor_class # "MyCursor"
                  THEN Raise(c, "ProgrammingError", "Cursor class needs be to subclass")
                  ELSE Return(c, Ret(cursor_class, -1, 0))
             ELSE IF cursor_type # 0 THEN Return(c, Ret(types[cursor_type + 1], -1, 0))
             ELSE IF prepared = "True" THEN Return(c, Ret("MySQLCursorPrepared", -1, 0))
             ELSE Return(c, Ret(types[1], -1, 0))

(* buffered, raw, prepared: "None", "True" or "False"; cursor_class: "None"  *)
(* or a class.  `x or default` is the default unless x is True.             *)
cursor(m, buffered, raw, prepared, cursor_class) ==
    IF m.unread_result THEN Raise(m, "InternalError", "Unread result found.")
    ELSE LET c == is_connected(m)
             buffered_ == buffered = "True" \/ c.settings.buffered
             raw_ == raw = "True" \/ c.settings.raw
             cursor_type == (IF buffered_ THEN 1 ELSE 0) + (IF raw_ THEN 2 ELSE 0)
         IN  IF c.ret.n = 0
             THEN Raise(c, "OperationalError", "MySQL Connection not available.")
             ELSE IF cursor_class # "None"
             THEN IF cursor_class # "MyCursor"
                  THEN Raise(c, "ProgrammingError", "Cursor class needs be to subclass")
                  ELSE Return(c, Ret(cursor_class, -1, 0))
             ELSE IF prepared = "True" THEN Return(c, Ret("MySQLCursorPrepared", -1, 0))
             ELSE Return(c, Ret(types[cursor_type + 1], -1, 0))

(* cmd_query_iter without its loop: only the first result is yielded. *)
cmd_query_iter_first_only(m, pc, statements) ==
    IF pc = "Fresh"
    THEN Then(_send_cmd(m, "QUERY", statements, TRUE), LAMBDA x : _handle_result(x, x.pkt))
    ELSE Return(m, Ret("StopIteration", -1, 0))

(* cmd_query_iter receiving the next result whatever unread_result. *)
cmd_query_iter_not_looking(m, pc, statements) ==
    IF pc = "Fresh"
    THEN Then(_send_cmd(m, "QUERY", statements, TRUE), LAMBDA x : _handle_result(x, x.pkt))
    ELSE IF m.have_next_result
         THEN Then(socket_recv(m), LAMBDA x : _handle_result(x, x.pkt))
         ELSE Return(m, Ret("StopIteration", -1, 0))

(* One resumption of the generator cmd_query_iter(statements) at position pc. *)
cmd_query_iter(m, pc, statements) ==
    IF pc = "Fresh"
    THEN Then(_send_cmd(m, "QUERY", statements, TRUE), LAMBDA x : _handle_result(x, x.pkt))
    ELSE IF m.have_next_result
         THEN IF m.unread_result
              THEN Raise(m, "InternalError", "Unread result found.")
              ELSE Then(socket_recv(m), LAMBDA x : _handle_result(x, x.pkt))
         ELSE Return(m, Ret("StopIteration", -1, 0))

----------------------------------------------------------------------------
(* The state machine. *)

(* Inputs. *)
Configs ==
    {[database |-> FALSE, with_db |-> TRUE, ssl |-> FALSE, ssl_options |-> <<>>,
      compress |-> FALSE, autocommit |-> FALSE, time_zone |-> FALSE,
      sql_mode |-> FALSE],
     [database |-> TRUE, with_db |-> FALSE, ssl |-> FALSE, ssl_options |-> <<>>,
      compress |-> FALSE, autocommit |-> FALSE, time_zone |-> TRUE,
      sql_mode |-> TRUE]}
Files == {-1, 0, 8176, 10000}
StreamLens == {0, 100, 10000}
ExecuteData == {<<>>, <<-1>>, <<10000>>, <<0, -1>>}
(* The wider inputs of cmd_stmt_execute: also two streams, the first of     *)
(* exactly one chunk; the parameters given along with data are one per      *)
(* value, or, for the single stream, none (the default) or one too many.    *)
StreamData == ExecuteData \cup {<<8192, 100>>}
OnePerValue(data) == [i \in 1..Len(data) |-> "?"]
ParametersFor(data) ==
    {OnePerValue(data)} \cup (IF data = <<10000>> THEN {<<>>, <<"?", "?">>} ELSE {})
ShutdownTypes == {"None", "valid", "invalid"}
PrepareDecisions ==
    {<<Shape(c, r)>> : c \in 0..MaxCols, r \in 0..MaxParams} \cup {<<ErrShape>>}
ExecuteDecisions == SelectDecisions \cup {<<OKShape>>}

(* The decisions the server takes during one cmd_query(q). *)
OracleFor(q) ==
    IF q = "LOAD DATA LOCAL INFILE"
    THEN {<<d1, d2>> : d1 \in SimpleDecisions, d2 \in SimpleDecisions}
    ELSE {<<d>> : d \in DecisionsFor(q)}
FilesFor(q) == IF q = "LOAD DATA LOCAL INFILE" THEN Files ELSE {0}

(* The decisions the server takes during one connect(): every command      *)
(* accepted, or the i-th one refused, or the old-password request.          *)
ConnectSteps == 6
ConnectOracles ==
    {[i \in 1..ConnectSteps |-> <<OKShape>>]}
    \cup {[i \in 1..ConnectSteps |-> IF i = k THEN <<ErrShape>> ELSE <<OKShape>>] :
             k \in 1..ConnectSteps}
    \cup {[i \in 1..ConnectSteps |-> IF i = 1 THEN <<OldPwdShape>> ELSE <<OKShape>>]}

(* attempts given to reconnect() and ping(). *)
Attempts == {-1, 0, 1, 2}

(* No reconnect() is running.  While one runs: op is the method the caller *)
(* called (reconnect or ping), counter its loop counter, cfg the configured *)
(* values; good says that the server was reachable, greeted and accepted    *)
(* everything in every iteration so far.                                    *)
DefaultConfig ==
    [database |-> FALSE, with_db |-> TRUE, ssl |-> FALSE, ssl_options |-> <<>>,
     compress |-> FALSE, autocommit |-> FALSE, time_zone |-> FALSE,
     sql_mode |-> FALSE]

(* The settings of the SSL flag and of the SSL options, each set or not,    *)
(* with and without a database to select after authentication.              *)
SslOptions == {<<>>, <<"ca", "cert", "key">>}
SslConfigs ==
    {[DefaultConfig EXCEPT !.ssl = f, !.ssl_options = o, !.database = db,
                           !.with_db = ~db] :
        f \in BOOLEAN, o \in SslOptions, db \in BOOLEAN}

(* The decisions during one connect() of the wider inputs: the reply to    *)
(* the auth packet is an OK, an ERR, the old-password request (tag 0xFE) or *)
(* a request for more authentication data (tag 0x01); the command after it  *)
(* is accepted or refused, all later ones are accepted.                     *)
AuthOracles ==
    {[i \in 1..ConnectSteps |-> IF i = 1 THEN <<d1>> ELSE IF i = 2 THEN d2
                                ELSE <<OKShape>>] :
        d1 \in {OKShape, ErrShape, OldPwdShape, MoreDataShape}, d2 \in SimpleDecisions}
NoRc == [pc |-> "idle", op |-> "", attempts |-> 0, counter |-> 0,
         cfg |-> DefaultConfig, good |-> TRUE]

NoIter == [pc |-> "None", stmt |-> "", ans |-> <<>>, got |-> <<>>, nquery |-> 0,
           clean |-> FALSE]

Mach(ds, file) ==
    [socket |-> socket, unread_result |-> unread_result,
     have_next_result |-> have_next_result, in_transaction |-> in_transaction,
     server_version |-> server_version, wire |-> wire, srv |-> srv, okst |-> okst,
     ds |-> ds, file |-> file, sent |-> <<>>, nrecv |-> 0, pkt |-> NoPkt,
     err |-> "None", msg |-> "", ret |-> NoRet, hdr |-> FALSE, over |-> FALSE,
     tls |-> 0, got |-> <<>>, zip |-> 0, long_data_used |-> {}, session |-> session,
     settings |-> settings]

(* The method called as op(arg / iso / n) ran to m: the fields take m's     *)
(* values and `last` records the call.  A call that sends over unread       *)
(* packets is modelled MaxStale times in a row.                             *)
Called(op, arg, iso, n, m) ==
    /\ m.over => stale < MaxStale
    /\ stale' = IF m.wire = <<>> THEN 0 ELSE IF m.over THEN stale + 1 ELSE stale
    /\ socket' = m.socket
    /\ unread_result' = m.unread_result
    /\ have_next_result' = m.have_next_result
    /\ in_transaction' = m.in_transaction
    /\ server_version' = m.server_version
    /\ wire' = m.wire
    /\ srv' = m.srv
    /\ okst' = m.okst
    /\ session' = m.session
    /\ settings' = m.settings
    /\ last' = [op |-> op, arg |-> arg, iso |-> iso, n |-> n, err |-> m.err,
                msg |-> m.msg, ret |-> m.ret, sent |-> m.sent, nrecv |-> m.nrecv,
                hdr |-> m.hdr, tag |-> m.pkt.tag, tls |-> m.tls,
                got |-> m.got, zip |-> m.zip, long_data_used |-> m.long_data_used]

(* A call made while no reconnect() is running (the caller is one thread). *)
Ran(op, arg, iso, n, m) ==
    /\ rc.pc = "idle"
    /\ Called(op, arg, iso, n, m)
    /\ rc' = NoRc

(* A call other than row reading: a suspended generator is no longer the   *)
(* only user of the stream (its bookkeeping is dropped), a finished one is  *)
(* forgotten.                                                               *)
Abandoned == [NoIter EXCEPT !.pc = "Yielded", !.stmt = "SELECT; SELECT"]
Interferes == iter' = IF iter.pc = "Yielded" THEN Abandoned ELSE NoIter

Init ==
    /\ socket = "None"
    /\ unread_result = FALSE
    /\ have_next_result = FALSE
    /\ in_transaction = FALSE
    /\ server_version = <<>>
    /\ wire = <<>>
    /\ srv = [trans |-> FALSE, autocommit |-> TRUE, mode |-> "gone"]
    /\ iter = NoIter
    /\ okst = -1
    /\ stale = 0
    /\ rc = NoRc
    /\ session = [charset_id |-> 33, autocommit |-> FALSE, sql_mode |-> NoMode,
                  time_zone |-> "None", database |-> ""]
    /\ settings = [get_warnings |-> FALSE, raise_on_warnings |-> FALSE,
                   buffered |-> FALSE, raw |-> FALSE]
    /\ last = [op |-> "__init__", arg |-> "", iso |-> <<>>, n |-> 0, err |-> "None",
               msg |-> "", ret |-> NoRet, sent |-> <<>>, nrecv |-> 0, hdr |-> FALSE,
               tag |-> NoPkt.tag, tls |-> 0, got |-> <<>>, zip |-> 0,
               long_data_used |-> {}]

(* cnx.connect() with the keyword arguments of config. *)
Connect ==
    \E config \in Configs, net \in {"up", "down"}, hs \in HandshakeInputs,
       ds \in ConnectOracles :
        /\ net = "down" => hs = "ok" /\ ds = [i \in 1..ConnectSteps |-> <<OKShape>>]
        /\ hs # "ok" => ds = [i \in 1..ConnectSteps |-> <<OKShape>>]
        /\ Ran("connect", IF net = "down" THEN net ELSE hs, <<>>, 0,
               connect(Mach(ds, 0), config, net, hs))
        /\ Interferes

(* cnx.connect() over the wider inputs: the SSL settings, the versions      *)
(* around 4.1, a request for more authentication data.  `last` records the  *)
(* SSL flag (n) and the SSL options (iso) of the call.                      *)
ConnectAny ==
    \E config \in SslConfigs, hs \in Greetings, ds \in AuthOracles :
        /\ hs \notin {"ok", "first"} => ds = [i \in 1..ConnectSteps |-> <<OKShape>>]
        /\ ds[1] # <<OKShape>> => ds[2] = <<OKShape>>
        /\ Ran("connect", hs, config.ssl_options, IF config.ssl THEN 1 ELSE 0,
               connect(Mach(ds, 0), config, "up", hs))
        /\ Interferes

(* The settings of the values connect() looks at after the greeting, as    *)
(* the flags <<database, with_db, compress, autocommit, time_zone,          *)
(* sql_mode>>: every setting of the first three (those _open_connection     *)
(* reads) with the last three all set or all unset, and every setting of    *)
(* the last three (those _post_connection reads) with the defaults for the  *)
(* first three.                                                             *)
ConfigFlags ==
    {f \in [1..6 -> BOOLEAN] :
        \/ f[4] = f[5] /\ f[5] = f[6]
        \/ ~f[1] /\ f[2] /\ ~f[3]}
ConfigOf(f) ==
    [database |-> f[1], with_db |-> f[2], ssl |-> FALSE, ssl_options |-> <<>>,
     compress |-> f[3], autocommit |-> f[4], time_zone |-> f[5], sql_mode |-> f[6]]

(* The decisions during one connect() of these configurations: those of     *)
(* Connect, or a request for more authentication data as the reply to the   *)
(* auth packet.                                                             *)
EstablishOracles ==
    ConnectOracles
    \cup {[i \in 1..ConnectSteps |-> IF i = 1 THEN <<MoreDataShape>> ELSE <<OKShape>>]}

(* The packets of a complete connect() under configuration cfg, after the  *)
(* greeting, in the order of the specification.                               *)
ConnectPlan(cfg) ==
    <<SentPkt("AUTH", "", 0)>>
    \o (IF ~cfg.with_db /\ cfg.database THEN <<SentPkt("INIT_DB", "database", 0)>>
        ELSE <<>>)
    \o <<SentPkt("QUERY", "SET NAMES", 0),
         SentPkt("QUERY", IF cfg.autocommit THEN "SET @@session.autocommit = ON"
                          ELSE "SET @@session.autocommit = OFF", 0)>>
    \o (IF cfg.time_zone THEN <<SentPkt("QUERY", "SET @@session.time_zone", 0)>>
        ELSE <<>>)
    \o (IF cfg.sql_mode THEN <<SentPkt("QUERY", "SET @@session.sql_mode", 0)>>
        ELSE <<>>)

(* cnx.connect() over every configuration; `last` records the flags of the *)
(* configuration (iso).  The server refuses at most one of the commands     *)
(* that this connect() has to send.                                         *)
ConnectConfigured ==
    \E f \in ConfigFlags, hs \in {"ok", "err"}, ds \in EstablishOracles :
        /\ hs # "ok" => ds = [i \in 1..ConnectSteps |-> <<OKShape>>]
        /\ \A i \in 1..ConnectSteps :
              ds[i] # <<OKShape>> => i <= Len(ConnectPlan(ConfigOf(f)))
        /\ Ran("connect", hs, f, 0, connect(Mach(ds, 0), ConfigOf(f), "up", hs))
        /\ Interferes

Disconnect ==
    /\ Ran("disconnect", "", <<>>, 0, disconnect(Mach(<<>>, 0)))
    /\ Interferes

QueryStmts == UserStmts \cup {"START TRANSACTION", "COMMIT"}

CmdQuery ==
    \E q \in QueryStmts :
      \E ds \in OracleFor(q), f \in FilesFor(q) :
        /\ Ran("cmd_query", q, <<>>, f, cmd_query(Mach(ds, f), q))
        /\ Interferes

(* Row reading leaves a suspended generator as it is. *)
RowsRead == iter' = IF iter.pc = "Yielded" THEN iter ELSE NoIter

GetRows ==
    /\ Ran("get_rows", "", <<>>, -1, get_rows(Mach(<<>>, 0), -1))
    /\ RowsRead

GetRow ==
    /\ Ran("get_row", "", <<>>, 1, get_row(Mach(<<>>, 0)))
    /\ RowsRead

(* The cursor layer's writes of the unread_result property: True once a     *)
(* prepared statement's execution returned a result-set header              *)
(* (MySQLCursorPrepared), False after the terminator was read (when it is   *)
(* False already); a value that is no bool is refused.                      *)
SetUnreadResult ==
    \E toggle \in {"True", "False", "1"} :
        /\ toggle = "True" => last.op = "cmd_stmt_execute" /\ last.ret.kind = "BRS"
                              /\ last.err = "None" /\ ~unread_result
        /\ toggle = "False" => ~unread_result
        /\ Ran("unread_result", toggle, <<>>, 0, _set_unread_result(Mach(<<>>, 0), toggle))
        /\ Interferes

CmdInitDb ==
    \E d \in SimpleDecisions :
        /\ Ran("cmd_init_db", "", <<>>, 0, cmd_init_db(Mach(<<d>>, 0), "database"))
        /\ Interferes

CmdRefresh ==
    \E d \in SimpleDecisions :
        /\ Ran("cmd_refresh", "", <<>>, 0, cmd_refresh(Mach(<<d>>, 0), "options"))
        /\ Interferes

CmdQuit ==
    /\ Ran("cmd_quit", "", <<>>, 0, cmd_quit(Mach(<<>>, 0)))
    /\ Interferes

CmdShutdown ==
    \E d \in SimpleDecisions, t \in ShutdownTypes :
        /\ Ran("cmd_shutdown", t, <<>>, 0, cmd_shutdown(Mach(<<d>>, 0), t))
        /\ Interferes

CmdStatistics ==
    /\ Ran("cmd_statistics", "", <<>>, 0, cmd_statistics(Mach(<<>>, 0)))
    /\ Interferes

CmdProcessKill ==
    \E d \in SimpleDecisions :
        /\ Ran("cmd_process_kill", "", <<>>, 0, cmd_process_kill(Mach(<<d>>, 0), "pid"))
        /\ Interferes

CmdDebug ==
    \E d \in SimpleDecisions :
        /\ Ran("cmd_debug", "", <<>>, 0, cmd_debug(Mach(<<d>>, 0)))
        /\ Interferes

CmdPing ==
    \E d \in SimpleDecisions :
        /\ Ran("cmd_ping", "", <<>>, 0, cmd_ping(Mach(<<d>>, 0)))
        /\ Interferes

CmdChangeUser ==
    \E d \in SimpleDecisions :
        /\ Ran("cmd_change_user", "", <<>>, 0, cmd_change_user(Mach(<<d>>, 0)))
        /\ Interferes

CmdStmtPrepare ==
    \E d \in PrepareDecisions :
        /\ Ran("cmd_stmt_prepare", "", <<>>, 0, cmd_stmt_prepare(Mach(<<d>>, 0), "statement"))
        /\ Interferes

(* `last` records data (iso) and the number of parameters (n). *)
CmdStmtExecute ==
    \E d \in ExecuteDecisions, data \in ExecuteData :
        /\ Ran("cmd_stmt_execute", "", data, Len(data),
               cmd_stmt_execute(Mach(<<d>>, 0), 1, data, OnePerValue(data)))
        /\ Interferes

(* cmd_stmt_execute over the wider inputs. *)
CmdStmtExecuteAny ==
    \E d \in ExecuteDecisions, data \in StreamData :
      \E parameters \in ParametersFor(data) :
        /\ Ran("cmd_stmt_execute", "", data, Len(parameters),
               cmd_stmt_execute(Mach(<<d>>, 0), 1, data, parameters))
        /\ Interferes

(* `last` records in arg whether the call before was a cmd_stmt_close of    *)
(* the same statement id that returned.                                     *)
CmdStmtClose ==
    /\ Ran("cmd_stmt_close",
           IF last.op = "cmd_stmt_close" /\ last.err = "None" THEN "again" ELSE "",
           <<>>, 0, cmd_stmt_close(Mach(<<>>, 0), 1))
    /\ Interferes

CmdStmtSendLongData ==
    \E data \in StreamLens :
        /\ Ran("cmd_stmt_send_long_data", "", <<>>, data,
               cmd_stmt_send_long_data(Mach(<<>>, 0), 1, 0, data))
        /\ Interferes

CmdStmtReset ==
    \E d \in SimpleDecisions :
        /\ Ran("cmd_stmt_reset", "", <<>>, 0, cmd_stmt_reset(Mach(<<d>>, 0), 1))
        /\ Interferes

(* The values given to the session setters. *)
ModeInputs == {ModeValue("str", <<"ANSI">>), ModeValue("list", <<"ANSI", "TRADITIONAL">>)}
ZoneInputs == {"+00:00", "SYSTEM"}
DatabaseInputs == {"test"}

(* The arguments of set_charset_collation: a name, a name with a collation  *)
(* (of that set, or of another one), a collation alone, an id, nothing.     *)
CharsetInputs ==
    {<<CharsetArg("str", -1, "utf8"), "None">>,
     <<CharsetArg("str", -1, "utf8"), "utf8_bin">>,
     <<CharsetArg("str", -1, "latin1"), "None">>,
     <<CharsetArg("str", -1, "latin1"), "utf8_bin">>,
     <<CharsetArg("None", -1, "None"), "utf8_bin">>,
     <<CharsetArg("int", 8, "None"), "None">>,
     <<CharsetArg("None", -1, "None"), "None">>}

(* The settings connect() reads, those among them that the connection       *)
(* stores as session values taken from `session`.                           *)
StoredConfig ==
    [DefaultConfig EXCEPT !.autocommit = session.autocommit,
                          !.time_zone = session.time_zone # "None",
                          !.sql_mode = session.sql_mode.kind # "None"]

(* cnx.connect() of a connection configured by its setters only. *)
ConnectStored ==
    \E ds \in ConnectOracles :
        /\ Ran("connect", "ok", <<>>, 0, connect(Mach(ds, 0), StoredConfig, "up", "ok"))
        /\ Interferes

(* cmd_query of a SELECT. *)
CmdQuerySelect ==
    \E d \in SelectDecisions :
        /\ Ran("cmd_query", "SELECT", <<>>, 0, cmd_query(Mach(<<d>>, 0), "SELECT"))
        /\ Interferes

(* A query and an execution the server answers with a packet cut short.    *)
ShortLens == 0..4

CmdQueryTruncated ==
    \E n \in ShortLens :
        /\ Ran("cmd_query", "SELECT", <<>>, 0,
               cmd_query(Mach(<<<<ShortShape(n)>>>>, 0), "SELECT"))
        /\ Interferes

CmdStmtExecuteTruncated ==
    \E n \in ShortLens :
        /\ Ran("cmd_stmt_execute", "", <<>>, 0,
               cmd_stmt_execute(Mach(<<<<ShortShape(n)>>>>, 0), 1, <<>>, <<>>))
        /\ Interferes

(* Assignments to the get_warnings and raise_on_warnings properties. *)
Toggles == {"True", "False", "1"}

SetGetWarnings ==
    \E toggle \in Toggles :
        /\ Ran("get_warnings", toggle, <<>>, 0, _set_getwarnings(Mach(<<>>, 0), toggle))
        /\ UNCHANGED iter

SetRaiseOnWarnings ==
    \E toggle \in Toggles :
        /\ Ran("raise_on_warnings", toggle, <<>>, 0,
               _set_raise_on_warnings(Mach(<<>>, 0), toggle))
        /\ UNCHANGED iter

(* cnx.config(buffered=..., raw=...) *)
ConfigCursorDefaults ==
    \E buffered \in BOOLEAN, raw \in BOOLEAN :
        /\ Ran("config", "", <<>>, 0,
               config_cursor_defaults(Mach(<<>>, 0), buffered, raw))
        /\ UNCHANGED iter

(* cnx.cursor(...): `last` records buffered, raw, prepared and cursor_class *)
(* (iso).                                                                   *)
OptionalBools == {"None", "True", "False"}
CursorClasses == {"None", "MyCursor", "object"}
Cursor ==
    \E buffered \in OptionalBools, raw \in {"None", "True"}, prepared \in {"None", "True"},
       cursor_class \in CursorClasses, d \in SimpleDecisions :
        /\ Ran("cursor", "", <<buffered, raw, prepared, cursor_class>>, 0,
               cursor(Mach(<<d>>, 0), buffered, raw, prepared, cursor_class))
        /\ Interferes

(* `last` records the value given: n = 1 for True. *)
SetAutocommit ==
    \E value \in BOOLEAN, d \in SimpleDecisions :
        /\ Ran("set_autocommit", "", <<>>, IF value THEN 1 ELSE 0,
               set_autocommit(Mach(<<d>>, 0), value))
        /\ Interferes

(* `last` records the value's kind (arg) and mode names (iso). *)
SetSqlMode ==
    \E value \in ModeInputs, d \in SimpleDecisions :
        /\ Ran("set_sql_mode", value.kind, value.names, 0,
               set_sql_mode(Mach(<<d>>, 0), value))
        /\ Interferes

SetTimeZone ==
    \E value \in ZoneInputs, d \in SimpleDecisions :
        /\ Ran("set_time_zone", value, <<>>, 0, set_time_zone(Mach(<<d>>, 0), value))
        /\ Interferes

SetDatabase ==
    \E value \in DatabaseInputs, d \in SimpleDecisions :
        /\ Ran("set_database", value, <<>>, 0, set_database(Mach(<<d>>, 0), value))
        /\ Interferes

(* `last` records the charset name (arg), the charset id (n) and the        *)
(* collation (iso).                                                         *)
SetCharsetCollation ==
    \E input \in CharsetInputs, d \in SimpleDecisions :
        /\ Ran("set_charset_collation", input[1].name, <<input[2]>>, input[1].id,
               set_charset_collation(Mach(<<d>>, 0), input[1], input[2]))
        /\ Interferes

StartTransaction ==
    \E consistent_snapshot \in BOOLEAN, isolation_level \in IsoInputs,
       d1 \in SimpleDecisions, d2 \in SimpleDecisions :
        /\ consistent_snapshot => isolation_level = NoLevel
        /\ d1 = <<ErrShape>> => d2 = <<OKShape>>
        /\ Ran("start_transaction", "", isolation_level, 0,
               start_transaction(Mach(<<d1, d2>>, 0), consistent_snapshot,
                                 isolation_level))
        /\ Interferes

Commit ==
    \E d \in SimpleDecisions :
        /\ Ran("commit", "", <<>>, 0, commit(Mach(<<d>>, 0)))
        /\ Interferes

Rollback ==
    \E d \in SimpleDecisions :
        /\ Ran("rollback", "", <<>>, 0, rollback(Mach(<<d>>, 0)))
        /\ Interferes

CountQueries(sent) == Cardinality({i \in 1..Len(sent) : sent[i].cmd = "QUERY"})

IterStmts == {"SELECT", "SELECT; SELECT", "INSERT"}

(* The generator after a resumption that ran the machine to m. *)
Resumed(stmt, ans, got, nquery, clean, m) ==
    LET yielded == m.err = "None" /\ m.ret.kind # "StopIteration"
    IN  IF clean
        THEN [pc |-> IF yielded THEN "Yielded" ELSE "Done", stmt |-> stmt, ans |-> ans,
              got |-> IF yielded THEN Append(got, m.ret.n) ELSE got,
              nquery |-> nquery + CountQueries(m.sent), clean |-> TRUE]
        ELSE IF yielded THEN Abandoned ELSE [NoIter EXCEPT !.pc = "Done"]

(* it = cnx.cmd_query_iter(q); next(it): creating the generator runs        *)
(* nothing, its first resumption sends the query.                           *)
CmdQueryIter ==
    \E q \in IterStmts :
      \E ds \in OracleFor(q) :
        LET m == cmd_query_iter(Mach(ds, 0), "Fresh", q)
        IN  /\ Ran("cmd_query_iter", q, <<>>, 0, m)
            /\ iter' = Resumed(q, [i \in 1..Len(Head(ds)) |-> Head(ds)[i].cols],
                               <<>>, 0,
                               wire = <<>> /\ socket = "Open" /\ srv.mode = "cmd"
                               /\ ~unread_result, m)

(* next(it) on the suspended generator. *)
IterNext ==
    /\ iter.pc = "Yielded"
    /\ LET m == cmd_query_iter(Mach(<<>>, 0), "Yielded", iter.stmt)
       IN  /\ Ran("next", "", <<>>, 0, m)
           /\ iter' = Resumed(iter.stmt, iter.ans, iter.got, iter.nquery,
                              iter.clean /\ ~unread_result, m)

(* What one connect() meets: the transport, the greeting and the server's *)
(* decisions (as in Connect), and whether all of it is a server that is     *)
(* reachable and accepts everything.                                        *)
AllAccepted == [i \in 1..ConnectSteps |-> <<OKShape>>]
ConnectInputs ==
    {x \in {"up", "down"} \X HandshakeInputs \X ConnectOracles :
        /\ x[1] = "down" => x[2] = "ok" /\ x[3] = AllAccepted
        /\ x[2] # "ok" => x[3] = AllAccepted}
WellBehaved(x, dp) == x = <<"up", "ok", AllAccepted>> /\ dp = <<OKShape>>

(* cnx.reconnect(attempts, delay), the values of config being configured:  *)
(* the call enters its loop, or returns at once for attempts = 0.           *)
Reconnect ==
    /\ rc.pc = "idle"
    /\ \E attempts \in Attempts, config \in Configs :
        /\ Called("reconnect", "", <<>>, attempts, Mach(<<>>, 0))
        /\ rc' = [pc |-> IF attempts = 0 THEN "idle" ELSE "loop", op |-> "reconnect",
                  attempts |-> attempts, counter |-> 0, cfg |-> config, good |-> TRUE]
    /\ Interferes

(* cnx.ping(reconnect, attempts, delay): it returns, raises, or enters the *)
(* loop of reconnect().                                                     *)
Ping ==
    /\ rc.pc = "idle"
    /\ \E reconnect_ \in BOOLEAN, attempts \in Attempts, config \in Configs,
          d \in SimpleDecisions :
        /\ ~reconnect_ => attempts = 1 /\ config = DefaultConfig
        /\ Called("ping", IF reconnect_ THEN "reconnect" ELSE "", <<>>, attempts,
                  ping(Mach(<<d>>, 0), reconnect_))
        /\ rc' = [pc |-> IF last'.ret.kind = "reconnect" /\ attempts # 0
                         THEN "loop" ELSE "idle",
                  op |-> "ping", attempts |-> attempts, counter |-> 0,
                  cfg |-> config, good |-> TRUE]
    /\ Interferes

(* One iteration of the loop of the running reconnect(). *)
ReconnectLoop ==
    /\ rc.pc = "loop"
    /\ rc.counter # rc.attempts
    /\ rc.counter < MaxCounter
    /\ \E x \in ConnectInputs, dp \in SimpleDecisions :
        /\ Called(rc.op, IF rc.op = "ping" THEN "reconnect" ELSE "", <<>>, rc.attempts,
                  reconnect(Mach(x[3], 0), rc.counter + 1, rc.attempts, rc.cfg,
                            x[1], x[2], dp))
        /\ rc' = [rc EXCEPT !.pc = IF last'.ret.kind = "continue" THEN "loop"
                                   ELSE "idle",
                            !.counter = @ + 1,
                            !.good = @ /\ WellBehaved(x, dp)]
    /\ Interferes

Next ==
    \/ Connect \/ ConnectAny \/ ConnectConfigured
    \/ Disconnect \/ Reconnect \/ Ping \/ ReconnectLoop
    \/ CmdQuery \/ CmdQueryIter \/ IterNext \/ GetRows \/ GetRow \/ SetUnreadResult
    \/ CmdInitDb \/ CmdRefresh \/ CmdQuit \/ CmdShutdown \/ CmdStatistics
    \/ CmdProcessKill \/ CmdDebug \/ CmdPing \/ CmdChangeUser
    \/ CmdStmtPrepare \/ CmdStmtExecute \/ CmdStmtExecuteAny \/ CmdStmtClose
    \/ CmdStmtSendLongData \/ CmdStmtReset
    \/ SetGetWarnings \/ SetRaiseOnWarnings \/ ConfigCursorDefaults \/ Cursor
    \/ CmdQueryTruncated \/ CmdStmtExecuteTruncated
    \/ ConnectStored \/ CmdQuerySelect \/ SetAutocommit \/ SetSqlMode \/ SetTimeZone \/ SetDatabase
    \/ SetCharsetCollation
    \/ StartTransaction \/ Commit \/ Rollback

Spec == Init /\ [][Next]_vars

(* The command methods on their own: connection life cycle, queries, row   *)
(* reading and every cmd_* method.                                          *)
NextCommands ==
    \/ Connect \/ Disconnect
    \/ CmdQuery \/ GetRows \/ GetRow
    \/ CmdInitDb \/ CmdRefresh \/ CmdQuit \/ CmdShutdown \/ CmdStatistics
    \/ CmdProcessKill \/ CmdDebug \/ CmdPing \/ CmdChangeUser
    \/ CmdStmtPrepare \/ CmdStmtExecute \/ CmdStmtClose \/ CmdStmtSendLongData
    \/ CmdStmtReset

SpecCommands == Init /\ [][NextCommands]_vars

(* The transaction methods with the queries and row reads around them. *)
NextTransactions ==
    \/ Connect \/ Disconnect
    \/ CmdQuery \/ GetRows \/ GetRow
    \/ StartTransaction \/ Commit \/ Rollback

SpecTransactions == Init /\ [][NextTransactions]_vars

(* Result reading: queries, the multi-result generator and row reads. *)
NextResults ==
    \/ Connect \/ Disconnect
    \/ CmdQuery \/ CmdQueryIter \/ IterNext \/ GetRows \/ GetRow

SpecResults == Init /\ [][NextResults]_vars

(* Life cycle: connecting, disconnecting, reconnecting, with the queries   *)
(* and row reads that leave results and transactions open.                  *)
NextLifecycle ==
    \/ Connect \/ Disconnect \/ Reconnect \/ Ping \/ ReconnectLoop
    \/ CmdQuery \/ GetRows

SpecLifecycle == Init /\ [][NextLifecycle]_vars

(* Connection establishment: connect() over the wider inputs, with the     *)
(* pings of the session that follows.                                       *)
NextConnect ==
    \/ ConnectAny \/ Disconnect \/ CmdPing

SpecConnect == Init /\ [][NextConnect]_vars

(* Prepared statements: the cmd_stmt_* methods with the queries, the row   *)
(* reads and the cursor layer's writes of unread_result around them.        *)
NextStatements ==
    \/ Connect \/ Disconnect
    \/ CmdQuery \/ GetRows \/ SetUnreadResult
    \/ CmdStmtPrepare \/ CmdStmtExecuteAny \/ CmdStmtClose \/ CmdStmtSendLongData
    \/ CmdStmtReset

SpecStatements == Init /\ [][NextStatements]_vars

(* Truncated responses: queries and executions answered with a packet cut   *)
(* short, among the queries and row reads that set the session's flags.     *)
NextTruncated ==
    \/ Connect \/ Disconnect
    \/ CmdQuery \/ GetRows
    \/ CmdQueryTruncated \/ CmdStmtExecuteTruncated

SpecTruncated == Init /\ [][NextTruncated]_vars

(* The session setters: the stored values over connects, queries and row    *)
(* reads.                                                                   *)
NextSession ==
    \/ ConnectStored \/ Disconnect
    \/ CmdQuerySelect \/ GetRows
    \/ SetAutocommit \/ SetSqlMode \/ SetTimeZone \/ SetDatabase
    \/ SetCharsetCollation

SpecSession == Init /\ [][NextSession]_vars

(* The cursor factory over connects, queries and row reads. *)
NextCursors ==
    \/ ConnectStored \/ Disconnect
    \/ CmdQuerySelect \/ GetRows
    \/ ConfigCursorDefaults \/ Cursor

SpecCursors == Init /\ [][NextCursors]_vars

(* The two warning flags over connects and disconnects. *)
NextWarnings ==
    \/ ConnectStored \/ Disconnect
    \/ SetGetWarnings \/ SetRaiseOnWarnings

SpecWarnings == Init /\ [][NextWarnings]_vars

(* The steps of connect() under every configuration. *)
NextEstablish ==
    \/ ConnectConfigured \/ Disconnect

SpecEstablish == Init /\ [][NextEstablish]_vars

----------------------------------------------------------------------------
(* Claims. *)

(* The command methods of C1. *)
CommandOps ==
    {"cmd_query", "cmd_init_db", "cmd_refresh", "cmd_quit", "cmd_shutdown",
     "cmd_statistics", "cmd_process_kill", "cmd_debug", "cmd_ping", "cmd_change_user",
     "cmd_stmt_prepare", "cmd_stmt_execute", "cmd_stmt_close",
     "cmd_stmt_send_long_data", "cmd_stmt_reset"}

(* The call of this step sent nothing, read nothing and left the three     *)
(* session flags and the framer as they were.                               *)
NothingDone ==
    /\ last'.sent = <<>>
    /\ last'.nrecv = 0
    /\ wire' = wire
    /\ socket' = socket
    /\ unread_result' = unread_result
    /\ in_transaction' = in_transaction
    /\ have_next_result' = have_next_result

QueryOps == {"cmd_query", "cmd_query_iter", "next"}
RowOps == {"get_rows", "get_row"}

(* The call of this step returned a result-set header. *)
ReturnedHeader == last'.err = "None" /\ last'.ret.kind = "RS"

(* The call of this step returned rows with a terminator (an EOF's status  *)
(* flags), or with None for it.                                             *)
ReturnedTerminator == last'.err = "None" /\ last'.ret.kind = "rows" /\ last'.ret.st # -1
ReturnedNoTerminator == last'.err = "None" /\ last'.ret.kind = "rows" /\ last'.ret.st = -1

(* The parts of C2 that do not depend on how a header is reported: a query *)
(* call that returns a header leaves unread_result true; a row read that    *)
(* returns None for the terminator leaves unread_result true and the flags  *)
(* as they were; unread_result becomes false exactly in a row read that     *)
(* returns a terminator, and the flags are then those of the terminator.    *)
C2_RowReads ==
    /\ (last'.op \in QueryOps /\ ReturnedHeader) => unread_result'
    /\ (last'.op \in RowOps /\ ReturnedNoTerminator)
         => /\ unread_result /\ unread_result'
            /\ in_transaction' = in_transaction
            /\ have_next_result' = have_next_result
    /\ (last'.op \in RowOps /\ ReturnedTerminator)
         => /\ unread_result /\ ~unread_result'
            /\ in_transaction' = flag_is_set(STATUS_IN_TRANS, last'.ret.st)
            /\ have_next_result' = flag_is_set(MORE_RESULTS_EXISTS, last'.ret.st)
    /\ (unread_result /\ ~unread_result')
         => (last'.op \in RowOps /\ ReturnedTerminator)

(* C2, as stated: unread_result becomes true exactly when cmd_query or     *)
(* cmd_query_iter returns a result-set header, stays true (flags           *)
(* unchanged) after a row read that returns None for the terminator, and    *)
(* becomes false exactly when a row read returns a terminator, the flags    *)
(* being updated from it.                                                   *)
C2_TrueExactlyOnReturnedHeader ==
    [][/\ C2_RowReads
       /\ (~unread_result /\ unread_result')
            => (last'.op \in QueryOps /\ ReturnedHeader)]_vars

(* C2, amended: as stated, except that unread_result becomes true exactly  *)
(* when a query call has read a result-set header (columns and EOF): the    *)
(* call returns it, or it is cmd_query and raises InterfaceError because    *)
(* the header's EOF announced more results.                                 *)
C2_TrueExactlyOnHeaderRead ==
    [][/\ C2_RowReads
       /\ (~unread_result /\ unread_result')
            => /\ last'.op \in QueryOps /\ last'.hdr
               /\ \/ ReturnedHeader
                  \/ /\ last'.op = "cmd_query" /\ last'.err = "InterfaceError"
                     /\ have_next_result']_vars

(* C2 witness: after a header, get_row returned a row and None for the     *)
(* terminator, and the result is still unread.                              *)
C2_Witness ==
    /\ last.op = "get_row" /\ last.err = "None"
    /\ last.ret = Ret("rows", -1, 1)
    /\ unread_result /\ wire # <<>>

(* C3: whenever a call has completed by returning an OK or EOF record,     *)
(* in_transaction is the STATUS_IN_TRANS bit and have_next_result the      *)
(* MORE_RESULTS_EXISTS bit of that packet's status flags.                   *)
C3_FlagsMirrorReturnedPacket ==
    (last.err = "None" /\ last.ret.kind \in {"OK", "EOF"})
      => /\ in_transaction = flag_is_set(STATUS_IN_TRANS, last.ret.st)
         /\ have_next_result = flag_is_set(MORE_RESULTS_EXISTS, last.ret.st)

(* C3 witness: cmd_ping returned an OK record whose status flags say that  *)
(* a transaction is open, and in_transaction is true.                       *)
C3_Witness ==
    /\ last.op = "cmd_ping" /\ last.err = "None" /\ last.ret.kind = "OK"
    /\ flag_is_set(STATUS_IN_TRANS, last.ret.st)
    /\ ~flag_is_set(MORE_RESULTS_EXISTS, last.ret.st)
    /\ in_transaction /\ ~have_next_result

(* C4, as stated: once an OK or EOF packet has been received, after every  *)
(* call in_transaction and have_next_result are the bits of the last OK or  *)
(* EOF packet received: never those of an older packet or of a previous     *)
(* session.                                                                 *)
C4_FlagsNeverStale ==
    okst # -1
      => /\ in_transaction = flag_is_set(STATUS_IN_TRANS, okst)
         /\ have_next_result = flag_is_set(MORE_RESULTS_EXISTS, okst)

(* The stream is in step: the framer is open, the server is serving        *)
(* commands and no packet of an earlier command is unread.                  *)
InSync == socket = "Open" /\ srv.mode = "cmd" /\ wire = <<>>

(* C5, as stated (for calls without an isolation level): start_transaction *)
(* raises ProgrammingError, sending nothing, when in_transaction is true;   *)
(* it succeeds whenever in_transaction is false, and in_transaction is then *)
(* true; after a commit or rollback that succeeds in_transaction is false.  *)
C5_SucceedsWheneverIdle ==
    [][/\ (last'.op = "start_transaction" /\ last'.iso = NoLevel)
            => IF in_transaction
               THEN last'.err = "ProgrammingError" /\ last'.sent = <<>>
               ELSE last'.err = "None" /\ in_transaction'
       /\ (last'.op \in {"commit", "rollback"} /\ last'.err = "None")
            => ~in_transaction']_vars

(* C5, amended: start_transaction raises ProgrammingError, doing nothing,  *)
(* when in_transaction is true.  When in_transaction and unread_result are  *)
(* false and the stream is in step, it fails only with ValueError (the      *)
(* isolation level) or with the server's error, and when it succeeds        *)
(* in_transaction is true; a commit or rollback that succeeds from such a   *)
(* state leaves in_transaction false.                                       *)
C5_TransactionCycle ==
    [][/\ (last'.op = "start_transaction" /\ in_transaction)
            => (last'.err = "ProgrammingError" /\ NothingDone)
       /\ (last'.op = "start_transaction" /\ ~in_transaction /\ ~unread_result /\ InSync)
            => /\ last'.err \in {"None", "ValueError", "DatabaseError"}
               /\ last'.err = "None" => in_transaction'
       /\ (last'.op \in {"commit", "rollback"} /\ ~unread_result /\ InSync
           /\ last'.err = "None")
            => ~in_transaction']_vars

(* C5 witness: start_transaction() succeeded and a transaction is open on  *)
(* both sides.                                                              *)
C5_Witness ==
    /\ last.op = "start_transaction" /\ last.iso = NoLevel /\ last.err = "None"
    /\ last.sent = <<SentPkt("QUERY", "START TRANSACTION", 0)>>
    /\ in_transaction /\ srv.trans

(* s names one of the four levels, ignoring case and reading "-" as a space. *)
NamesLevel(s) == upper(replace(s, "-", " ")) \in levels

(* C6, as stated (for calls made outside a transaction, with no unread     *)
(* result, on a stream in step): an isolation-level string that names one   *)
(* of the four levels is accepted (the call fails at most with the server's *)
(* error); any other string raises ValueError, nothing being sent and       *)
(* nothing changed.                                                         *)
C6_OnlyTheFourLevels ==
    [][(/\ last'.op = "start_transaction" /\ last'.iso # NoLevel
        /\ ~in_transaction /\ ~unread_result /\ InSync)
         => IF NamesLevel(last'.iso)
            THEN last'.err \in {"None", "DatabaseError"}
            ELSE last'.err = "ValueError" /\ NothingDone]_vars

(* What the code takes for a level: the empty string (no level at all), or *)
(* a string that names a level once the white space around it is removed.   *)
TakenForLevel(s) == s = <<>> \/ NamesLevel(strip(s))

(* C6, amended: outside a transaction, start_transaction given a string    *)
(* that is not empty and, with the white space around it removed, names no  *)
(* level raises ValueError, nothing being sent and nothing changed; given   *)
(* any other string it never raises ValueError, sends SET TRANSACTION       *)
(* ISOLATION LEVEL first unless the string is empty, and with no unread     *)
(* result on a stream in step fails at most with the server's error and     *)
(* leaves in_transaction true when it succeeds.  Inside a transaction it    *)
(* raises ProgrammingError whatever the string.                             *)
C6_LevelsAfterStrip ==
    [][(last'.op = "start_transaction" /\ last'.iso # NoLevel)
         => /\ in_transaction => (last'.err = "ProgrammingError" /\ NothingDone)
            /\ (~in_transaction /\ ~TakenForLevel(last'.iso))
                 => (last'.err = "ValueError" /\ NothingDone)
            /\ (~in_transaction /\ TakenForLevel(last'.iso))
                 => /\ last'.err # "ValueError"
                    /\ (last'.iso # <<>> /\ last'.sent # <<>>)
                         => last'.sent[1].arg = "SET TRANSACTION ISOLATION LEVEL"
                    /\ (last'.iso = <<>> /\ last'.sent # <<>>)
                         => last'.sent[1].arg = "START TRANSACTION"
                    /\ (~unread_result /\ InSync)
                         => /\ last'.err \in {"None", "DatabaseError"}
                            /\ last'.err = "None" => in_transaction']_vars

(* C6 witness: start_transaction(isolation_level="Read-Committed")         *)
(* succeeded: the level was set, then the transaction started.              *)
C6_Witness ==
    /\ last.op = "start_transaction" /\ last.iso = IsoDashed /\ last.err = "None"
    /\ last.sent = <<SentPkt("QUERY", "SET TRANSACTION ISOLATION LEVEL", 0),
                     SentPkt("QUERY", "START TRANSACTION", 0)>>
    /\ in_transaction

(* C7, as stated: rollback() called with unread_result true does not fail  *)
(* with InternalError and, when it returns, in_transaction is false;        *)
(* commit() called with unread_result true fails with InternalError,        *)
(* reading and sending nothing.                                             *)
C7_RollbackDrainsFirst ==
    [][/\ (last'.op = "rollback" /\ unread_result)
            => /\ last'.err # "InternalError"
               /\ last'.err = "None" => ~in_transaction'
       /\ (last'.op = "commit" /\ unread_result)
            => (last'.err = "InternalError" /\ NothingDone)]_vars

(* C8: cmd_query returns only with have_next_result clear, and then        *)
(* returns the dispatched response (an OK or EOF record or a result-set     *)
(* header, carrying the status flags of the last packet dispatched, which   *)
(* announce no further result); it raises the InterfaceError that points to *)
(* cmd_query_iter only when the response it dispatched announced further    *)
(* results, have_next_result being set.                                     *)
C8_QueryRefusesMultiResult ==
    last.op = "cmd_query"
      => /\ last.err = "None"
              => /\ ~have_next_result
                 /\ last.ret.kind \in {"OK", "EOF", "RS"}
                 /\ last.ret.st = okst
                 /\ ~flag_is_set(MORE_RESULTS_EXISTS, okst)
         /\ last.msg = "Use cmd_query_iter"
              => /\ last.err = "InterfaceError"
                 /\ have_next_result
                 /\ flag_is_set(MORE_RESULTS_EXISTS, okst)
                 /\ last.nrecv >= 1

(* C8 witness: cmd_query on a two-statement query whose first response is  *)
(* a result-set header announcing a further result raised the directive.    *)
C8_Witness ==
    /\ last.op = "cmd_query" /\ last.arg = "SELECT; SELECT"
    /\ last.err = "InterfaceError" /\ last.msg = "Use cmd_query_iter"
    /\ last.hdr /\ have_next_result /\ unread_result

(* The generator has run alone from a stream in step, its caller draining  *)
(* each result set before advancing, over a chain without ERR.              *)
ChainIterated ==
    /\ iter.clean
    /\ \A i \in 1..Len(iter.ans) : iter.ans[i] >= 0

(* C9: for a query answered by a chain of k results and a caller that      *)
(* drains each result set before advancing, cmd_query_iter sends one QUERY  *)
(* packet, yields the results in the server's order, a further one exactly  *)
(* while fewer than k were yielded, and ends after the k-th with            *)
(* have_next_result false.                                                  *)
C9_IterYieldsTheChain ==
    ChainIterated
      => /\ iter.nquery = 1
         /\ Len(iter.got) <= Len(iter.ans)
         /\ \A i \in 1..Len(iter.got) : iter.got[i] = iter.ans[i]
         /\ (iter.pc = "Yielded" /\ ~unread_result)
              => /\ have_next_result <=> Len(iter.got) < Len(iter.ans)
                 /\ have_next_result => wire # <<>>
         /\ iter.pc = "Done"
              => /\ iter.got = iter.ans
                 /\ last.op = "next" /\ last.ret.kind = "StopIteration"
                 /\ last.sent = <<>> /\ last.nrecv = 0
                 /\ ~have_next_result /\ ~unread_result /\ wire = <<>>

(* C9 witness: a chain of two results, a result set then an OK, was        *)
(* iterated to its end.                                                     *)
C9_Witness ==
    /\ ChainIterated /\ iter.pc = "Done"
    /\ iter.ans = <<1, 0>> /\ iter.got = <<1, 0>> /\ iter.nquery = 1
    /\ ~have_next_result

(* C10, as stated: whenever disconnect() has returned, the framer it was   *)
(* called on is closed (or there was none).                                 *)
C10_DisconnectCloses ==
    last.op = "disconnect" => (last.err = "None" /\ socket \in {"None", "Closed"})

(* The fields of the connection and the stream under it. *)
Connection ==
    <<socket, unread_result, have_next_result, in_transaction, server_version,
      wire, srv>>

(* C11: disconnect() (close()) returns normally in every state, and a      *)
(* disconnect() that directly follows a disconnect() leaves the connection  *)
(* and the stream as the first one left them.                               *)
C11_DisconnectSafeAndIdempotent ==
    [][last'.op = "disconnect"
         => /\ last'.err = "None"
            /\ last.op = "disconnect" => UNCHANGED Connection]_vars

(* C11 witness: disconnect() was called on a framer that was closed        *)
(* already; the QUIT could not be sent and the error was swallowed.         *)
C11_Witness ==
    /\ last.op = "disconnect" /\ last.err = "None"
    /\ last.sent = <<>> /\ socket = "Closed"

(* A call of reconnect(), or of ping(reconnect=True), has ended. *)
ReconnectEnded ==
    /\ rc.pc = "idle"
    /\ \/ last.op = "reconnect"
       \/ last.op = "ping" /\ last.arg = "reconnect"

(* C12, as stated: for every integer attempts, reconnect(attempts, delay)   *)
(* runs its loop of disconnect-then-connect at most attempts times (not at  *)
(* all for a negative value).                                               *)
C12_AtMostAttemptsIterations ==
    rc.op = "reconnect" => rc.counter <= (IF rc.attempts < 0 THEN 0 ELSE rc.attempts)

(* C13, as stated: with attempts >= 1, reconnect() and ping(reconnect=True) *)
(* return normally only when the connection is open and answered a ping     *)
(* (the ping of the last attempt, or the one ping() starts with); every     *)
(* other call raises InterfaceError.                                        *)
C13_ReturnsOnlyWhenAlive ==
    (ReconnectEnded /\ rc.attempts >= 1)
      => IF last.err = "None"
         THEN /\ socket = "Open"
              /\ \/ last.ret.kind = "break"
                 \/ last.op = "ping" /\ rc.counter = 0
         ELSE last.err = "InterfaceError"

(* C14, as stated: when the server is reachable and accepts everything,     *)
(* ping(reconnect=True, attempts >= 1) ends, whatever the state it was      *)
(* called in, without error and with an open connection that can take a     *)
(* command: no unread result, nothing unread on the stream, the session     *)
(* waiting for a command.                                                   *)
C14_PingRecovers ==
    (ReconnectEnded /\ last.op = "ping" /\ rc.attempts >= 1 /\ rc.counter >= 1
       /\ rc.good)
      => /\ last.err = "None"
         /\ socket = "Open" /\ srv.mode = "cmd" /\ wire = <<>>
         /\ ~unread_result

(* C15, as stated: when connect() has raised (in the handshake, the         *)
(* authentication or the post-connection statements), no open framer is     *)
(* attached to the connection.                                              *)
C15_FailedConnectLeavesClosed ==
    (last.op = "connect" /\ last.err # "None") => socket # "Open"

(* The command methods whose reply is dispatched by _handle_ok,             *)
(* _handle_eof, _handle_result or their binary counterparts: all but        *)
(* cmd_statistics, whose reply goes to the codec's parse_statistics.        *)
DispatchedOps == CommandOps \ {"cmd_statistics"}

C17_AbsentFramerIsOperationalError ==
    (socket = "None" /\ last.op \in CommandOps) => last.err = "OperationalError"

(* The positions, among the packets the last call sent, of the packets of   *)
(* command cmd.                                                             *)
SentAt(cmd) == {i \in DOMAIN last.sent : last.sent[i].cmd = cmd}

(* C18: a connect() gets past the handshake (it goes on to send an          *)
(* authentication packet) only if the greeting is no ERR packet, carries a  *)
(* version string of three numbers and that version is >= (4,1), and it     *)
(* then stores that version; a connect() that does not get past the         *)
(* handshake leaves the stored version (and the handshake record stored     *)
(* with it) as it was; the stored version is always unset or >= (4,1).      *)
C18_HandshakeGuardsVersion ==
    [][/\ server_version' = <<>> \/ ~tuple_lt(server_version', <<4, 1>>)
       /\ last'.op = "connect"
            => IF \E i \in DOMAIN last'.sent : last'.sent[i].cmd \in {"AUTH", "AUTH_SSL"}
               THEN /\ last'.arg \notin {"down", "err", "garbled", "noversion"}
                    /\ ~tuple_lt(Version(last'.arg), <<4, 1>>)
                    /\ server_version' = Version(last'.arg)
               ELSE server_version' = server_version]_vars

(* C18 witness: a server of version 4.0.27 was refused at the handshake,    *)
(* and the version 4.1.0 stored by an earlier connect() is still there.     *)
C18_Witness ==
    /\ last.op = "connect" /\ last.arg = "old"
    /\ last.err = "InterfaceError" /\ last.msg = "MySQL Version is not supported."
    /\ SentAt("AUTH") = {}
    /\ server_version = <<4, 1, 0>>

(* C19: a connect() that reaches authentication upgrades the framer to TLS  *)
(* exactly when the SSL flag is set (n = 1) and the SSL options are not     *)
(* empty; it then sends one SSL request, upgrades right after it and sends  *)
(* the auth packet next.  Otherwise no SSL request is sent, no upgrade      *)
(* happens, and the auth packet is the first packet sent on the new framer  *)
(* (only the QUIT of the framer before can precede it).                     *)
C19_TlsUpgradeBetweenRequestAndAuth ==
    last.op = "connect"
      => IF SentAt("AUTH") = {}
         THEN SentAt("AUTH_SSL") = {} /\ last.tls = 0
         ELSE IF last.n = 1 /\ last.iso # <<>>
         THEN /\ last.tls >= 1
              /\ SentAt("AUTH_SSL") = {last.tls}
              /\ SentAt("AUTH") = {last.tls + 1}
              /\ \A i \in 1..(last.tls - 1) : last.sent[i].cmd = "QUIT"
         ELSE /\ last.tls = 0
              /\ SentAt("AUTH_SSL") = {}
              /\ \/ SentAt("AUTH") = {1}
                 \/ SentAt("AUTH") = {2} /\ last.sent[1].cmd = "QUIT"

(* C19 witness: a connect() with the SSL flag and SSL options succeeded;    *)
(* the upgrade came after the SSL request, its first packet, and before the *)
(* auth packet, its second.                                                 *)
C19_Witness ==
    /\ last.op = "connect" /\ last.err = "None" /\ socket = "Open"
    /\ last.n = 1 /\ last.iso # <<>>
    /\ last.tls = 1 /\ SentAt("AUTH_SSL") = {1} /\ SentAt("AUTH") = {2}

(* The tags of the packets the last call read after its i-th packet was     *)
(* sent and before the next one.                                            *)
ReadAfter(i) == {j \in DOMAIN last.got : last.got[j][1] = i}

(* C20, as stated: exactly one packet is read in reply to the auth packet,  *)
(* tag 0xFE raises NotSupportedError, tag 0xFF the server's error, and      *)
(* connect() goes on (sends its next packet) only when the tag is 0x00.     *)
C20_AuthReplyClassified ==
    (last.op = "connect" /\ SentAt("AUTH") # {})
      => \A i \in SentAt("AUTH") :
            /\ Cardinality(ReadAfter(i)) = 1
            /\ \A j \in ReadAfter(i) :
                  /\ last.got[j][2] = 254
                       => Len(last.sent) = i /\ last.err = "NotSupportedError"
                  /\ last.got[j][2] = 255
                       => Len(last.sent) = i /\ last.err = "DatabaseError"
                  /\ Len(last.sent) > i => last.got[j][2] = 0

(* The steps before SET NAMES: authentication and, when it is due, INIT_DB. *)
StepsBeforeSwap(cfg) == IF ~cfg.with_db /\ cfg.database THEN 2 ELSE 1

(* The number of QUIT packets the last call sent first (to the framer of    *)
(* the session before).                                                     *)
QuitsFirst == IF last.sent # <<>> /\ last.sent[1].cmd = "QUIT" THEN 1 ELSE 0

(* C21, as stated: connect() receives the greeting first, then sends the    *)
(* packets of its plan in order (auth; INIT_DB exactly when CONNECT_WITH_DB *)
(* is not set and a database is configured; SET NAMES; autocommit; the      *)
(* time zone and the SQL mode only when configured); it swaps the framer to *)
(* compressed send/recv exactly when COMPRESS is set, between the last step *)
(* of authentication and SET NAMES; it returns normally exactly when the    *)
(* whole plan was carried out; and a step is started only after the step    *)
(* before it succeeded: exactly one packet was read in reply, an OK.        *)
C21_ConnectStepsInOrder ==
    (last.op = "connect" /\ Len(last.iso) = 6)
      => LET cfg == ConfigOf(last.iso)
             plan == ConnectPlan(cfg)
             q == QuitsFirst
             steps == SubSeq(last.sent, q + 1, Len(last.sent))
             pre == StepsBeforeSwap(cfg)
         IN  /\ last.got # <<>> /\ last.got[1][1] = q
             /\ Len(steps) <= Len(plan)
             /\ \A i \in DOMAIN steps : steps[i] = plan[i]
             /\ last.err = "None" <=> (steps = plan /\ last.tag = 0)
             /\ \A i \in 1..(Len(steps) - 1) :
                   /\ Cardinality(ReadAfter(q + i)) = 1
                   /\ \A j \in ReadAfter(q + i) : last.got[j][2] = 0
             /\ last.zip = IF cfg.compress /\ Len(steps) > pre THEN q + pre ELSE 0

(* The first packet the call of this step read is a column count: no OK,    *)
(* LOCAL INFILE request, EOF or ERR.                                        *)
ReadColumnCount ==
    /\ last'.op \in QueryOps
    /\ last'.got # <<>>
    /\ last'.got[1][2] \notin {0, 251, 254, 255}

(* The number that column count encodes. *)
ColumnCountRead ==
    parse_column_count([tag |-> last'.got[1][2], a |-> last'.got[1][3]])

(* C22: when the response a query call reads is a column count N >= 1, the  *)
(* call reads at most N + 2 packets (fewer only when the stream ends:       *)
(* lost connection); unread_result is true afterwards exactly when N + 2    *)
(* packets were read and the last of them is an EOF, and the status flags   *)
(* are then those of that EOF; when that packet is an ERR or no EOF the     *)
(* decoded error or InterfaceError is raised and unread_result stays false. *)
(* A column count of 0 or None raises InterfaceError, nothing further being *)
(* read and unread_result staying false.                                    *)
C22_HeaderReadThenMarked ==
    [][ReadColumnCount
         => LET N == ColumnCountRead
            IN  /\ ~unread_result
                /\ N >= 1
                     => /\ last'.nrecv <= N + 2
                        /\ last'.nrecv < N + 2
                             => /\ last'.err = "InterfaceError"
                                /\ last'.msg = "Lost connection"
                                /\ ~unread_result'
                        /\ last'.nrecv = N + 2
                             => LET eof == last'.got[N + 2]
                                IN  IF eof[2] = 254
                                    THEN /\ unread_result'
                                         /\ in_transaction'
                                              = flag_is_set(STATUS_IN_TRANS, okst')
                                         /\ have_next_result'
                                              = flag_is_set(MORE_RESULTS_EXISTS, okst')
                                    ELSE /\ ~unread_result'
                                         /\ last'.err = IF eof[2] = 255
                                                        THEN "DatabaseError"
                                                        ELSE "InterfaceError"
                /\ N < 1
                     => /\ last'.err = "InterfaceError"
                        /\ last'.msg = "Illegal result set."
                        /\ last'.nrecv = 1
                        /\ ~unread_result']_vars

(* C22 witness: cmd_query read a column count of 1, one column definition   *)
(* and the EOF, and the result is marked unread.                            *)
C22_Witness ==
    /\ last.op = "cmd_query" /\ last.err = "None" /\ last.ret.kind = "RS"
    /\ last.nrecv = 3
    /\ last.got[1][2] = 1 /\ last.got[2][2] = 3 /\ last.got[3][2] = 254
    /\ unread_result

(* The last call was a cmd_query whose query was answered by a LOCAL INFILE *)
(* request (tag 0xFB); last.n is the file the request names: its size, or   *)
(* -1 when it cannot be opened.                                             *)
InfileRequested ==
    /\ last.op = "cmd_query"
    /\ last.got # <<>>
    /\ last.got[1][2] = 251

(* The packets the last call sent after its QUERY packet. *)
SentAfterQuery == SubSeq(last.sent, 2, Len(last.sent))

(* C23: on a LOCAL INFILE request for a readable file of n bytes the call   *)
(* sends, after the query, the content in packets of NET_BUFFER_LENGTH - 16 *)
(* bytes (the last one shorter when n is no multiple, none for n = 0), then *)
(* one empty packet; it reads nothing between the request and the empty     *)
(* packet and at most one packet after it (none only when the stream ends), *)
(* which it handles as the statement's OK: an OK updates the status flags,  *)
(* an ERR raises the decoded error, any other packet InterfaceError.        *)
C23_InfileStreamsThenTerminates ==
    (InfileRequested /\ last.n >= 0)
      => LET data == SentAfterQuery
             k == Len(data) - 1
             size == NET_BUFFER_LENGTH - 16
         IN  /\ Len(last.sent) >= 2 /\ last.sent[1].cmd = "QUERY"
             /\ \A i \in DOMAIN data : data[i].cmd = "DATA"
             /\ data[Len(data)].len = 0
             /\ \A i \in 1..k : data[i].len = size \/ (i = k /\ data[i].len \in 1..size)
             /\ IF last.n = 0 THEN k = 0
                ELSE k >= 1 /\ (k - 1) * size + data[k].len = last.n
             /\ last.got[1][1] = 1
             /\ Len(last.got) <= 2
             /\ IF Len(last.got) = 2
                THEN /\ last.got[2][1] = Len(last.sent)
                     /\ CASE last.tag = 0 ->
                               /\ in_transaction = flag_is_set(STATUS_IN_TRANS, okst)
                               /\ have_next_result
                                    = flag_is_set(MORE_RESULTS_EXISTS, okst)
                               /\ IF have_next_result
                                  THEN last.msg = "Use cmd_query_iter"
                                  ELSE last.err = "None" /\ last.ret.kind = "OK"
                          [] last.tag = 255 -> last.err = "DatabaseError"
                          [] OTHER -> /\ last.err = "InterfaceError"
                                      /\ last.msg = "Expected OK packet"
                ELSE last.err = "InterfaceError" /\ last.msg = "Lost connection"

(* C23 witness: a file of 10000 bytes was sent as 8176 + 1824 bytes and an *)
(* empty packet, and the server's OK was returned.                          *)
C23_Witness ==
    /\ InfileRequested /\ last.n = 10000 /\ last.err = "None"
    /\ last.ret.kind = "OK"
    /\ last.sent = <<SentPkt("QUERY", "LOAD DATA LOCAL INFILE", 0),
                     SentPkt("DATA", "", 8176), SentPkt("DATA", "", 1824),
                     SentPkt("DATA", "", 0)>>
    /\ last.nrecv = 2 /\ wire = <<>>

(* C24: on a LOCAL INFILE request for a file that cannot be opened the call *)
(* sends, after the query, exactly one empty packet and no file data, reads *)
(* nothing more and raises InterfaceError; unread_result, in_transaction    *)
(* and have_next_result keep their values.                                  *)
C24_UnreadableFileCancels ==
    [][(/\ last'.op = "cmd_query" /\ last'.got # <<>> /\ last'.got[1][2] = 251
        /\ last'.n < 0)
         => /\ Len(last'.sent) = 2
            /\ last'.sent[1].cmd = "QUERY"
            /\ last'.sent[2] = SentPkt("DATA", "", 0)
            /\ last'.nrecv = 1
            /\ last'.err = "InterfaceError" /\ last'.msg = "File could not be read"
            /\ unread_result' = unread_result
            /\ in_transaction' = in_transaction
            /\ have_next_result' = have_next_result]_vars

(* C24 witness: inside a transaction a LOAD DATA LOCAL INFILE named a file  *)
(* that cannot be opened: one empty packet went out, InterfaceError was     *)
(* raised, the transaction flag is still set.                               *)
C24_Witness ==
    /\ InfileRequested /\ last.n < 0
    /\ last.err = "InterfaceError" /\ last.msg = "File could not be read"
    /\ last.sent = <<SentPkt("QUERY", "LOAD DATA LOCAL INFILE", 0),
                     SentPkt("DATA", "", 0)>>
    /\ in_transaction /\ ~unread_result

(* The STMT_SEND_LONG_DATA packets of one stream of L bytes: ceil(L / 8192) *)
(* packets of 8192 bytes, the last one carrying the rest.                   *)
LongDataPackets(L) ==
    [i \in 1..((L + 8191) \div 8192) |->
        SentPkt("STMT_SEND_LONG_DATA", "",
                IF i * 8192 <= L THEN 8192 ELSE L - (i - 1) * 8192)]

(* The long-data packets of the first k values of data, in index order. *)
RECURSIVE LongDataPlan(_, _)
LongDataPlan(data, k) ==
    IF k = 0 THEN <<>>
    ELSE LongDataPlan(data, k - 1)
         \o (IF data[k] >= 0 THEN LongDataPackets(data[k]) ELSE <<>>)

(* This step is a call of cmd_stmt_execute on an open connection without an *)
(* unread result; last'.iso is data, last'.n the number of parameters.      *)
ExecuteCalled ==
    /\ last'.op = "cmd_stmt_execute"
    /\ socket = "Open" /\ ~unread_result

(* The values of data the call looks at: those with a parameter. *)
Looked == IF last'.n < Len(last'.iso) THEN last'.n ELSE Len(last'.iso)

(* The long data of this step went out first, then one STMT_EXECUTE; the    *)
(* stream indexes are recorded; nothing was read before STMT_EXECUTE.       *)
StreamsThenExecute ==
    /\ last'.sent = LongDataPlan(last'.iso, Looked)
                    \o <<SentPkt("STMT_EXECUTE", "", 0)>>
    /\ last'.long_data_used = {i \in 0..(Looked - 1) : last'.iso[i + 1] >= 0}
    /\ \A j \in DOMAIN last'.got : last'.got[j][1] = Len(last'.sent)

(* C25 as stated: cmd_stmt_execute sends the long data of every stream      *)
(* value in chunks of 8192 bytes before the single STMT_EXECUTE, reads      *)
(* nothing in between, records the indexes, and reads exactly one packet    *)
(* (none when the server is gone and the read ends in a lost connection).   *)
C25_OneResponsePacket ==
    [][(ExecuteCalled /\ last'.n = Len(last'.iso))
         => /\ StreamsThenExecute
            /\ \/ last'.nrecv = 1
               \/ /\ last'.nrecv = 0
                  /\ last'.err = "InterfaceError" /\ last'.msg = "Lost connection"]_vars

(* C25 amended: for every value of data that has a parameter and is a       *)
(* stream of L bytes the call sends ceil(L / 8192) STMT_SEND_LONG_DATA      *)
(* packets of 8192 bytes except the tail, in index order, then (unless      *)
(* there are more parameters than values of a non-empty data: IndexError,   *)
(* nothing else sent or read) one STMT_EXECUTE; the indexes are recorded;   *)
(* every packet is read after STMT_EXECUTE: one when it is an OK, EOF, ERR  *)
(* or illegal count, N + 2 when it is a column count N (fewer only when the *)
(* stream ends).                                                            *)
C25_LongDataBeforeExecute ==
    [][ExecuteCalled
         => IF last'.iso # <<>> /\ last'.n > Len(last'.iso)
            THEN /\ last'.sent = LongDataPlan(last'.iso, Looked)
                 /\ last'.err = "IndexError"
                 /\ last'.nrecv = 0
            ELSE /\ StreamsThenExecute
                 /\ \/ last'.err = "InterfaceError" /\ last'.msg = "Lost connection"
                    \/ /\ last'.nrecv >= 1
                       /\ LET N == parse_column_count([tag |-> last'.got[1][2],
                                                       a |-> last'.got[1][3]])
                          IN  last'.nrecv
                                = IF last'.got[1][2] \in {0, 254, 255} \/ N < 1
                                  THEN 1 ELSE N + 2]_vars

(* C25 witness: data held one stream of 10000 bytes for the one parameter:  *)
(* 8192 + 1808 bytes went out as long data, then STMT_EXECUTE, whose        *)
(* result-set header of one column and its EOF were read.                   *)
C25_Witness ==
    /\ last.op = "cmd_stmt_execute" /\ last.iso = <<10000>> /\ last.n = 1
    /\ last.err = "None"
    /\ last.sent = <<SentPkt("STMT_SEND_LONG_DATA", "", 8192),
                     SentPkt("STMT_SEND_LONG_DATA", "", 1808),
                     SentPkt("STMT_EXECUTE", "", 0)>>
    /\ last.long_data_used = {0}
    /\ last.nrecv = 3 /\ last.got[1][2] = 1 /\ last.got[3][2] = 254

(* This step is a call of cmd_stmt_prepare on an open connection without an *)
(* unread result.                                                           *)
PrepareCalled ==
    /\ last'.op = "cmd_stmt_prepare"
    /\ socket = "Open" /\ ~unread_result

(* The packets a prepare-OK announcing p parameters and c columns is        *)
(* followed by, the prepare-OK included.                                    *)
PreparePackets(p, c) ==
    1 + (IF p > 0 THEN p + 1 ELSE 0) + (IF c > 0 THEN c + 1 ELSE 0)

(* The places of the EOFs among them. *)
PrepareEOFs(p, c) ==
    (IF p > 0 THEN {1 + p + 1} ELSE {}) \cup (IF c > 0 THEN {PreparePackets(p, c)} ELSE {})

(* C26: cmd_stmt_prepare sends one STMT_PREPARE packet and reads only after *)
(* it.  When the first packet read is a prepare-OK with num_params = p and  *)
(* num_columns = c, the call reads at most 1 + (p>0 ? p+1 : 0) +            *)
(* (c>0 ? c+1 : 0) packets; it returns exactly when it read them all with   *)
(* an EOF at the end of each group, and then the descriptor holds p         *)
(* parameter and c column descriptors (on a stream without older packets    *)
(* the others are the definitions the server sent); it raises when the      *)
(* stream ends or the packet in an EOF's place is no EOF.  An ERR reply     *)
(* raises the decoded error, any other first packet InterfaceError, after   *)
(* reading only that one packet.                                            *)
C26_PrepareReadsDefinitions ==
    [][PrepareCalled
         => /\ last'.sent = <<SentPkt("STMT_PREPARE", "statement", 0)>>
            /\ \A j \in DOMAIN last'.got : last'.got[j][1] = 1
            /\ IF last'.got = <<>>
               THEN last'.err = "InterfaceError" /\ last'.msg = "Lost connection"
               ELSE LET first == last'.got[1]
                        p == first[3]
                        c == first[4]
                        all == PreparePackets(p, c)
                    IN  CASE first[2] = 255 ->
                               last'.err = "DatabaseError" /\ last'.nrecv = 1
                          [] first[2] = 0 ->
                               /\ last'.nrecv <= all
                               /\ last'.err = "None"
                                    <=> /\ last'.nrecv = all
                                        /\ \A j \in PrepareEOFs(p, c) :
                                              last'.got[j][2] = 254
                               /\ last'.err = "None"
                                    => /\ last'.ret = Ret("prepare", p, c)
                                       /\ wire = <<>>
                                            => \A j \in (2..all) \ PrepareEOFs(p, c) :
                                                  last'.got[j][2] = 3
                               /\ last'.err # "None"
                                    => \/ /\ last'.msg = "Lost connection"
                                          /\ last'.nrecv < all
                                       \/ /\ last'.nrecv \in PrepareEOFs(p, c)
                                          /\ last'.got[last'.nrecv][2] # 254
                          [] OTHER ->
                               /\ last'.err = "InterfaceError"
                               /\ last'.msg = "Expected Binary OK packet"
                               /\ last'.nrecv = 1]_vars

(* C26 witness: a statement with two parameters and one column was          *)
(* prepared: six packets were read, the EOFs fourth and sixth.              *)
C26_Witness ==
    /\ last.op = "cmd_stmt_prepare" /\ last.err = "None"
    /\ last.got[1][2] = 0 /\ last.got[1][3] = 2 /\ last.got[1][4] = 1
    /\ last.nrecv = 6
    /\ last.got[4][2] = 254 /\ last.got[6][2] = 254
    /\ last.ret = Ret("prepare", 2, 1)

(* C27: on an open connection without an unread result, whose server is in  *)
(* its command phase or gone, cmd_stmt_close sends one STMT_CLOSE packet,   *)
(* reads nothing and returns, the first time and                            *)
(* every time after, and the stream holds the same unread packets as        *)
(* before (none when there were none); cmd_stmt_reset sends one STMT_RESET  *)
(* packet and reads, after it, one packet (none only when the stream ends:  *)
(* lost connection), returns when it is an OK and raises when it is not.    *)
C27_CloseSilentResetAcknowledged ==
    [][(socket = "Open" /\ ~unread_result /\ srv.mode \in {"cmd", "gone"})
         => /\ last'.op = "cmd_stmt_close"
                 => /\ last'.sent = <<SentPkt("STMT_CLOSE", "", 0)>>
                    /\ last'.nrecv = 0
                    /\ last'.err = "None"
                    /\ wire' = wire
            /\ last'.op = "cmd_stmt_reset"
                 => /\ last'.sent = <<SentPkt("STMT_RESET", "", 0)>>
                    /\ IF last'.nrecv = 0
                       THEN last'.err = "InterfaceError" /\ last'.msg = "Lost connection"
                       ELSE /\ last'.nrecv = 1
                            /\ last'.got[1][1] = 1
                            /\ last'.err = "None" <=> last'.tag = 0
                            /\ last'.tag = 255 => last'.err = "DatabaseError"
                            /\ last'.tag \notin {0, 255}
                                 => /\ last'.err = "InterfaceError"
                                    /\ last'.msg = "Expected OK packet"]_vars

(* C27 witness: cmd_stmt_close was repeated on the statement id just        *)
(* closed: it returned again, having read nothing, and the stream is empty. *)
C27_Witness ==
    /\ last.op = "cmd_stmt_close" /\ last.arg = "again"
    /\ last.err = "None"
    /\ last.sent = <<SentPkt("STMT_CLOSE", "", 0)>> /\ last.nrecv = 0
    /\ wire = <<>>

(* C28: the response cmd_stmt_execute reads after STMT_EXECUTE is handled   *)
(* like the response to a text query: an OK or EOF updates the status flags *)
(* and is returned, an ERR raises the decoded error, and on a column count  *)
(* N >= 1 followed by N column definitions and an EOF the N + 2 packets are *)
(* read, the header is returned and unread_result is true afterwards.       *)
C28_ExecuteDispatchedLikeQuery ==
    [][(ExecuteCalled /\ last'.nrecv >= 1 /\ last'.sent # <<>>
        /\ last'.sent[Len(last'.sent)].cmd = "STMT_EXECUTE")
         => LET first == last'.got[1]
                N == parse_column_count([tag |-> first[2], a |-> first[3]])
            IN  CASE first[2] \in {0, 254} ->
                       /\ last'.err = "None"
                       /\ last'.ret.kind = IF first[2] = 0 THEN "OK" ELSE "EOF"
                       /\ in_transaction' = flag_is_set(STATUS_IN_TRANS, okst')
                       /\ have_next_result' = flag_is_set(MORE_RESULTS_EXISTS, okst')
                       /\ unread_result' = unread_result
                  [] first[2] = 255 ->
                       last'.err = "DatabaseError" /\ unread_result' = unread_result
                  [] OTHER ->
                       (N >= 1 /\ last'.nrecv = N + 2 /\ last'.got[N + 2][2] = 254)
                          => /\ last'.err = "None"
                             /\ last'.ret.kind = "BRS"
                             /\ unread_result']_vars

SetterOps == {"set_autocommit", "set_sql_mode", "set_time_zone", "set_database"}

(* The QUERY packet of the setter called in this step. *)
SetterQuery ==
    SentPkt("QUERY",
            CASE last'.op = "set_autocommit" ->
                   IF last'.n = 1 THEN "SET @@session.autocommit = ON"
                   ELSE "SET @@session.autocommit = OFF"
              [] last'.op = "set_sql_mode" -> "SET @@session.sql_mode"
              [] last'.op = "set_time_zone" -> "SET @@session.time_zone"
              [] OTHER -> "USE",
            0)

(* C29: set_autocommit(v), set_sql_mode(v), set_time_zone(v) and            *)
(* set_database(v) send nothing but one QUERY packet (exactly one on an     *)
(* open connection without an unread result); when the call succeeds the    *)
(* value the connection stores for that parameter is v (for sql_mode: the   *)
(* mode names of v), and when it fails every stored value is unchanged.     *)
C29_SettersMirrorValue ==
    [][last'.op \in SetterOps
         => /\ last'.sent \in {<<>>, <<SetterQuery>>}
            /\ (socket = "Open" /\ ~unread_result) => last'.sent # <<>>
            /\ last'.err # "None" => session' = session
            /\ last'.err = "None"
                 => CASE last'.op = "set_autocommit" ->
                           session'.autocommit = (last'.n = 1)
                      [] last'.op = "set_sql_mode" ->
                           session'.sql_mode.names = last'.iso
                      [] last'.op = "set_time_zone" ->
                           session'.time_zone = last'.arg
                      [] OTHER -> session'.database = last'.arg]_vars

(* C30: when set_charset_collation, called on an open connection with the   *)
(* name of a character set (and possibly a collation), succeeds, the        *)
(* charset property returns that name; when it fails (an unread result is   *)
(* outstanding, the server refuses SET NAMES, the catalog does not know the *)
(* names) the charset property returns what it returned before the call.    *)
C30_CharsetFollowsSetCharset ==
    [][(last'.op = "set_charset_collation" /\ last'.arg # "None" /\ socket = "Open")
         => IF last'.err = "None"
            THEN charset_of(session') = last'.arg
            ELSE charset_of(session') = charset_of(session)]_vars

(* This step assigned to the raise_on_warnings or the get_warnings          *)
(* property; last'.arg is the value assigned.                               *)
WarningOps == {"get_warnings", "raise_on_warnings"}

(* What the assignments do, one at a time: raise_on_warnings = True / False *)
(* sets both flags to that value; a value that is no bool raises ValueError *)
(* and changes neither flag.                                                *)
WarningAssignments ==
    [][last'.op \in WarningOps
         => IF last'.arg \in {"True", "False"}
            THEN /\ last'.err = "None"
                 /\ last'.op = "raise_on_warnings"
                      => /\ settings'.raise_on_warnings = (last'.arg = "True")
                         /\ settings'.get_warnings = (last'.arg = "True")
            ELSE /\ last'.err = "ValueError"
                 /\ settings' = settings]_vars

(* C31: assigning True or False to raise_on_warnings sets get_warnings to   *)
(* the same value, assigning a value that is no bool to either property     *)
(* raises ValueError and changes neither flag, and in every state, after    *)
(* any assignments, raise_on_warnings implies get_warnings.                 *)
C31_RaiseImpliesGetWarnings ==
    /\ WarningAssignments
    /\ [](settings.raise_on_warnings => settings.get_warnings)

(* This step is a call of cursor(); last'.iso is <<buffered, raw, prepared, *)
(* cursor_class>>.                                                          *)
CursorCalled == last'.op = "cursor"

(* The class cursor() is to return for the arguments of this step on a      *)
(* connection whose defaults are those of `settings`.                       *)
CursorExpected ==
    LET buffered == last'.iso[1] = "True" \/ settings.buffered
        raw == last'.iso[2] = "True" \/ settings.raw
    IN  IF last'.iso[4] # "None" THEN last'.iso[4]
        ELSE IF last'.iso[3] = "True" THEN "MySQLCursorPrepared"
        ELSE IF buffered /\ raw THEN "MySQLCursorBufferedRaw"
        ELSE IF buffered THEN "MySQLCursorBuffered"
        ELSE IF raw THEN "MySQLCursorRaw"
        ELSE "MySQLCursor"

(* C33: cursor() with an unread result raises InternalError and sends       *)
(* nothing; on a connection that is not open, or whose server does not      *)
(* answer the ping of is_connected() with an OK, it raises                  *)
(* OperationalError; otherwise it raises ProgrammingError for a             *)
(* cursor_class that is no cursor base subtype and else returns the         *)
(* cursor_class given, else the prepared cursor when prepared is True, else *)
(* the class selected by (buffered or the default, raw or the default).     *)
C33_CursorFactory ==
    [][CursorCalled
         => IF unread_result
            THEN /\ last'.err = "InternalError" /\ last'.msg = "Unread result found."
                 /\ last'.sent = <<>> /\ last'.nrecv = 0
            ELSE IF socket # "Open" \/ last'.tag # 0
            THEN /\ last'.err = "OperationalError"
                 /\ last'.msg = "MySQL Connection not available."
            ELSE /\ last'.sent = <<SentPkt("PING", "", 0)>>
                 /\ IF last'.iso[4] = "object"
                    THEN last'.err = "ProgrammingError"
                    ELSE /\ last'.err = "None"
                         /\ last'.ret.kind = CursorExpected]_vars

(* C33 witness: on a connection whose default is buffered, cursor() called  *)
(* with raw=True and prepared=True returned the prepared cursor.            *)
C33_Witness ==
    /\ last.op = "cursor" /\ last.err = "None"
    /\ last.iso = <<"None", "True", "True", "None">>
    /\ settings.buffered
    /\ last.ret.kind = "MySQLCursorPrepared"

----------------------------------------------------------------------------
(* C32: get_rows and get_row called while unread_result is False raise      *)
(* InternalError ("No result set available."), read no packet, send        *)
(* nothing, and leave the socket, the flags, the server version, the        *)
(* packets waiting on the connection and the stored session values as they  *)
(* were.                                                                    *)
RowsRefused ==
    /\ last'.op \in {"get_rows", "get_row"}
    /\ ~unread_result

C32_NoResultNoRead ==
    [][RowsRefused =>
          /\ last'.err = "InternalError"
          /\ last'.msg = "No result set available."
          /\ last'.nrecv = 0
          /\ last'.sent = <<>>
          /\ UNCHANGED <<socket, unread_result, have_next_result, in_transaction,
                         server_version, wire, srv, okst, session, settings>>]_vars

(* get_row was refused on an open connection whose server still has packets *)
(* of an abandoned result waiting.                                          *)
C32_Witness ==
    /\ last.op = "get_row"
    /\ last.err = "InternalError"
    /\ last.msg = "No result set available."
    /\ ~unread_result
    /\ socket = "Open"
    /\ wire # <<>>

----------------------------------------------------------------------------
(* C34: a command packet is sent only when every packet the server produced *)
(* for earlier commands has been received: a call of cmd_query or           *)
(* cmd_query_iter, whose first step after the unread-result check is the    *)
(* send, sends only when no packet is waiting on the connection.            *)
SendsFirst == {"cmd_query", "cmd_query_iter"}

C34_NoResponsesOutstanding ==
    [][last'.op \in SendsFirst /\ last'.sent # <<>> => wire = <<>>]_vars

----------------------------------------------------------------------------
(* C35: advancing the cmd_query_iter generator beyond a yield while         *)
(* unread_result is True reads no packet: with have_next_result set it      *)
(* raises InternalError ("Unread result found."), without it the iteration  *)
(* ends; a packet is received by the advance only when have_next_result is  *)
(* True and unread_result is False.                                         *)
C35_IterNeverReadsOverUnread ==
    [][last'.op = "next" =>
          /\ unread_result =>
                /\ last'.nrecv = 0
                /\ have_next_result =>
                      last'.err = "InternalError" /\ last'.msg = "Unread result found."
                /\ ~have_next_result =>
                      last'.err = "None" /\ last'.ret.kind = "StopIteration"
          /\ last'.nrecv > 0 => have_next_result /\ ~unread_result]_vars

(* The generator was advanced over an unread result set with more results  *)
(* announced and packets waiting, and refused.                              *)
C35_Witness ==
    /\ last.op = "next"
    /\ last.err = "InternalError"
    /\ last.nrecv = 0
    /\ unread_result
    /\ have_next_result
    /\ wire # <<>>

----------------------------------------------------------------------------
(* C36: a response to a query or an execute command that is cut short (an   *)
(* empty packet, or one of 1 to 4 bytes, too short to hold byte[4]) is      *)
(* reported as InterfaceError, and the session state is as before.          *)
TruncatedRead ==
    /\ last'.op \in {"cmd_query", "cmd_stmt_execute"}
    /\ last'.got # <<>>
    /\ last'.got[Len(last'.got)][2] = -1

C36_TruncatedIsInterfaceError ==
    [][TruncatedRead =>
          /\ last'.err = "InterfaceError"
          /\ UNCHANGED <<socket, unread_result, have_next_result, in_transaction,
                         server_version, session, settings>>]_vars

----------------------------------------------------------------------------
(* C37: whenever connect() returns normally, and whenever reconnect() (or   *)
(* ping(reconnect=True)) returns because an attempt connected and answered  *)
(* the ping, unread_result and have_next_result are False; disconnect() and *)
(* connect() leave a set unread_result set, so that a connect() started     *)
(* with unread_result True does not return normally.                        *)
ConnectReturned ==
    /\ last'.err = "None"
    /\ \/ last'.op = "connect"
       \/ last'.op \in {"reconnect", "ping"} /\ last'.ret.kind = "break"

C37_ConnectReturnsClean ==
    [][/\ ConnectReturned =>
             ~unread_result' /\ ~have_next_result' /\ ~unread_result
       /\ last'.op \in {"connect", "disconnect"} /\ unread_result =>
             unread_result']_vars

(* connect() returned on a connection that had a framer before (it sent    *)
(* QUIT first).                                                             *)
C37_Witness ==
    /\ last.op = "connect"
    /\ last.err = "None"
    /\ last.sent # <<>>
    /\ last.sent[1].cmd = "QUIT"
    /\ socket = "Open"
    /\ ~unread_result
    /\ ~have_next_result

====
